---- MODULE Spec2Model ----
(***************************************************************************)
(* State-machine model of the Smart Autonomous Taxi simulation core:       *)
(* CityModel (src/model/city_model.py), Taxi, Passenger and TrafficLight   *)
(* (src/agents/), and the road network helpers (src/utils/pathfinding.py). *)
(*                                                                         *)
(* One call of CityModel.step() is modelled as BeginStep (environment      *)
(* update, spawn, shuffle), then one action per agent activation of        *)
(* schedule.step(), then EndStep (time += 1, running check).  A tick       *)
(* boundary is a state with pc = "idle".                                   *)
(*                                                                         *)
(* Library behaviour the code relies on:                                   *)
(*  - mesa RandomActivation.step(): the agent keys are shuffled, every key *)
(*    still scheduled when its turn comes is stepped, keys removed in the  *)
(*    meantime are skipped.  The shuffled buffer is modelled by the set    *)
(*    `todo` of keys not yet visited, the next key being any of them: the  *)
(*    same runs as drawing the whole permutation first.                    *)
(*  - mesa MultiGrid(width, height, torus=True): get_neighborhood wraps.   *)
(*  - networkx shortest_path on grid_2d_graph: some shortest path; which   *)
(*    one is the library's choice, here any of them.                       *)
(***************************************************************************)
EXTENDS Integers, Sequences, FiniteSets, TLC

(* ------------------------------------------------------------------ *)
(* Bounds of the runs                                                  *)
(* ------------------------------------------------------------------ *)

\* City runs: step() calls made, passengers ever spawned.
MaxTime == 3
MaxPassengers == 1
\* Dispatch runs (several passengers waiting for one taxi).
MaxDispatchTime == 2
MaxDispatchPassengers == 2
\* Traffic-light runs (no passengers).
MaxLightTime == 10
\* Expiry runs (no taxis): step() calls made from ExpiryStart on, passengers
\* spawned during them, and how far below its threshold the waiting passenger
\* of the first state can be.
ExpiryStart == 500
MaxExpiryTime == 2
MaxExpirySpawns == 1
ExpirySlack == 1
\* Route runs (one taxi, one passenger, no light): step() calls made.
MaxPathTime == 2
\* Late runs: step() calls made from RunStart on, passengers spawned in them.
RunStart == 998
MaxRunTime == 3
MaxRunSpawns == 1
\* Placement runs (one taxi, no passenger): traffic lights asked for, step()
\* calls made.
MaxPlacementLights == 3
MaxPlacementTime == 2
\* Query runs: calls of the derived queries between two step() calls.
MaxQueries == 2
\* Dashboard runs: threads alive at once, ticks of one model, Reset requests.
MaxDashThreads == 2
MaxDashTime == 2
MaxResets == 1

\* Signal runs: ticks of the long green phase, ticks after the red start.
MaxGreenTime == 17
MaxRedTime == 1

\* Detour runs: ticks after the start, passengers spawned.
MaxDetourTime == 3
MaxDetourPassengers == 1

\* Rush-hour runs: ticks after the start, passengers spawned.
MaxRushTime == 2
MaxRushSpawns == 1

\* Route planning: destinations handed to _plan_route.
MaxDestinations == 3

\* Gridlock runs: ticks after the first state.
MaxGridlockTime == 16

\* Fleet runs: ticks.
MaxFleetTime == 2

VARIABLES
    params,     \* constructor arguments kept by the model (width, num_taxis, ...)
    bound,      \* the run's bounds: step() calls the driver makes, passengers spawned
    time,       \* schedule.time
    running,    \* CityModel.running
    schedule,   \* schedule.agents: agent keys in insertion order
    grid,       \* MultiGrid: cell -> set of agent keys placed there
    taxi,       \* Taxi objects by key
    passenger,  \* Passenger objects by key (scheduled or removed)
    light,      \* TrafficLight objects by key
    rush_hour_active, \* CityModel.rush_hour_active
    weather,    \* CityModel.weather
    pc,         \* "idle" between step() calls, "stepping" inside schedule.step(),
                \* "spawning" inside the redraw loop of _spawn_passenger
    todo,       \* keys of the shuffled buffer not yet visited in this tick
    calls,      \* number of agent.step() invocations per key in this tick
    dash,       \* the dashboard process: its globals, threads and callbacks
    metrics     \* what the derived queries returned since the last step() began

vars == <<params, bound, time, running, schedule, grid, taxi, passenger, light,
          rush_hour_active, weather, pc, todo, calls, dash, metrics>>

(* ------------------------------------------------------------------ *)
(* Road network and grid                                               *)
(* ------------------------------------------------------------------ *)

Abs(n) == IF n < 0 THEN -n ELSE n

\* The (width, height) arguments the modelled cities are constructed with.
GridSizes == {<<0, 0>>, <<1, 1>>, <<2, 2>>, <<3, 1>>, <<3, 2>>}

\* create_road_network: nodes of grid_2d_graph(width, height).
CellsOf(w, h) == (0..(w - 1)) \X (0..(h - 1))

\* Node order of grid_2d_graph: (i, j) for i in range(width) for j in range(height).
NodeListOf(w, h) == [k \in 1..(w * h) |-> <<(k - 1) \div h, (k - 1) % h>>]

\* Edges of grid_2d_graph: 4-neighbour lattice, not periodic.
AdjOf(w, h, c) == {d \in CellsOf(w, h) : Abs(d[1] - c[1]) + Abs(d[2] - c[2]) = 1}

RECURSIVE Ball(_, _, _, _)
Ball(w, h, a, k) ==
    IF k = 0 THEN {a}
    ELSE LET B == Ball(w, h, a, k - 1) IN B \cup UNION {AdjOf(w, h, c) : c \in B}

\* Number of edges of a shortest path of the road network (breadth-first).
\* (Comparing the table with itself makes it be computed once, as a whole.)
HopTable ==
    LET T == [g \in GridSizes |-> [a \in CellsOf(g[1], g[2]) |-> [b \in CellsOf(g[1], g[2]) |->
               CHOOSE k \in 0..(g[1] * g[2]) :
                   /\ b \in Ball(g[1], g[2], a, k)
                   /\ (k = 0 \/ b \notin Ball(g[1], g[2], a, k - 1))]]]
    IN IF T = T THEN T ELSE T

RECURSIVE ShortestPaths(_, _, _)
ShortestPaths(g, a, b) ==
    IF a = b THEN {<< >>}
    ELSE UNION {{<<n>> \o p : p \in ShortestPaths(g, n, b)} :
                   n \in {m \in AdjOf(g[1], g[2], a) : HopTable[g][m][b] = HopTable[g][a][b] - 1}}

\* nx.shortest_path(road_network, a, b)[1:], for every pair of nodes.
PathTable ==
    LET T == [g \in GridSizes |-> [a \in CellsOf(g[1], g[2]) |-> [b \in CellsOf(g[1], g[2]) |->
                 ShortestPaths(g, a, b)]]]
    IN IF T = T THEN T ELSE T

\* The model's road network: its nodes, their order, adjacency and degree.
Cells == CellsOf(params.width, params.height)
NodeList == NodeListOf(params.width, params.height)
Adj(c) == AdjOf(params.width, params.height, c)
Degree(c) == Cardinality(Adj(c))

\* Mutant of FindPath: the path keeps its first node, the start.
FindPathWithStart(start, end) ==
    IF start \in Cells /\ end \in Cells
    THEN {<<start>> \o p : p \in PathTable[<<params.width, params.height>>][start][end]}
    ELSE {<< >>}

\* Taxi._find_path: the shortest path without its first node; [] for start = end.
FindPath(start, end) ==
    IF start \in Cells /\ end \in Cells
    THEN PathTable[<<params.width, params.height>>][start][end]
    ELSE {<< >>}

\* Taxi._manhattan_distance
ManhattanDistance(pos1, pos2) == Abs(pos1[1] - pos2[1]) + Abs(pos1[2] - pos2[2])

\* MultiGrid.get_neighborhood on the torus grid.
GetNeighborhood(pos, moore, include_center) ==
    LET offs == {o \in (-1..1) \X (-1..1) : moore \/ Abs(o[1]) + Abs(o[2]) <= 1}
        all == {<<(pos[1] + o[1]) % params.width, (pos[2] + o[2]) % params.height>> : o \in offs}
    IN IF include_center THEN all ELSE all \ {pos}

(* ------------------------------------------------------------------ *)
(* Agent keys                                                          *)
(* ------------------------------------------------------------------ *)

TaxiKey(i) == <<"taxi", i>>
LightKey(i) == <<"tl", i>>
PassengerKey(n) == <<"passenger", n>>

IsTaxi(k) == k[1] = "taxi"
IsLight(k) == k[1] = "tl"
IsPassenger(k) == k[1] = "passenger"

SeqToSet(s) == {s[i] : i \in 1..Len(s)}
Scheduled == SeqToSet(schedule)
Remove(s, k) == SelectSeq(s, LAMBDA x : x # k)

\* MultiGrid.place_agent / remove_agent / move_agent
PlaceAgent(g, k, pos) == [g EXCEPT ![pos] = @ \cup {k}]
RemoveAgent(g, k) == [c \in Cells |-> g[c] \ {k}]
MoveAgent(g, k, pos) == PlaceAgent(RemoveAgent(g, k), k, pos)

(* ------------------------------------------------------------------ *)
(* Passenger                                                           *)
(* ------------------------------------------------------------------ *)

Priorities == {"regular", "vip", "emergency"}

\* Passenger._get_max_wait_time
GetMaxWaitTime(priority) ==
    CASE priority = "regular" -> 500
      [] priority = "vip" -> 300
      [] priority = "emergency" -> 100
      [] OTHER -> 500

\* Passenger.__init__
NewPassenger(position, destination, priority, now) ==
    [position |-> position, destination |-> destination, priority |-> priority,
     status |-> "waiting", wait_time |-> 0, spawn_time |-> now,
     max_wait_time |-> GetMaxWaitTime(priority)]

\* Mutant of PassengerAfterStep: the passenger counts its ticks in every status.
PassengerAfterStepAnyStatus(p) == [p EXCEPT !.wait_time = @ + 1]

\* Passenger.step: the passenger after its own step, and whether it expired.
PassengerAfterStep(p) ==
    IF p.status = "waiting" THEN [p EXCEPT !.wait_time = @ + 1] ELSE p

\* Mutant of PassengerExpires: the threshold itself already expires.
PassengerExpiresAtThreshold(p) ==
    p.status = "waiting" /\ p.wait_time + 1 >= p.max_wait_time

PassengerExpires(p) ==
    p.status = "waiting" /\ p.wait_time + 1 > p.max_wait_time

(* ------------------------------------------------------------------ *)
(* TrafficLight                                                        *)
(* ------------------------------------------------------------------ *)

\* TrafficLight.__init__
NewLight(position, direction) ==
    [position |-> position, direction |-> direction, state |-> "green",
     time_in_state |-> 0, min_green_time |-> 5, max_green_time |-> 15,
     min_red_time |-> 3]

\* TrafficLight._opposite_direction
OppositeDirection(l) == IF l.direction = "horizontal" THEN "vertical" ELSE "horizontal"

\* TrafficLight.is_green
IsGreen(l) == l.state = "green"

\* Mutant of IsGreenForDirection: the state alone decides, for both axes.
IsGreenWhateverDirection(l, direction) == l.state = "green"

\* TrafficLight.is_green_for_direction
IsGreenForDirection(l, direction) ==
    IF l.direction = direction THEN l.state = "green" ELSE l.state = "red"

\* TrafficLight._count_traffic: taxis in the Moore neighbourhood (centre
\* included) by the dominant axis of their offset; ties count for neither.
CountTraffic(l) ==
    LET near == GetNeighborhood(l.position, TRUE, TRUE)
        seen == {k \in DOMAIN taxi : \E pos \in near : k \in grid[pos]}
        cell(k) == CHOOSE pos \in near : k \in grid[pos]
        dx(k) == cell(k)[1] - l.position[1]
        dy(k) == cell(k)[2] - l.position[2]
    IN [horizontal |-> Cardinality({k \in seen : Abs(dx(k)) > Abs(dy(k))}),
        vertical |-> Cardinality({k \in seen : Abs(dy(k)) > Abs(dx(k))})]

\* TrafficLight._switch_to_green / _switch_to_red
SwitchToGreen(l) == [l EXCEPT !.state = "green", !.time_in_state = 0]
SwitchToRed(l) == [l EXCEPT !.state = "red", !.time_in_state = 0]

\* Mutant of LightAfterStep: a red light does not wait for min_red_time.
LightAfterStepNoRedDwell(l0) ==
    LET l == [l0 EXCEPT !.time_in_state = @ + 1]
        traffic_density == CountTraffic(l)
        own == traffic_density[l.direction]
        other_density == traffic_density[OppositeDirection(l)]
    IN IF l.state = "green"
       THEN IF /\ l.time_in_state >= l.min_green_time
               /\ (own = 0 \/ l.time_in_state >= l.max_green_time)
               /\ other_density > 0
            THEN SwitchToRed(l) ELSE l
       ELSE IF 2 * own > 3 * other_density \/ other_density = 0
            THEN SwitchToGreen(l) ELSE l

\* Mutant of LightAfterStep: a green light turns red at max_green_time
\* whatever the opposite traffic is.
LightAfterStepGreenCapped(l0) ==
    LET l == [l0 EXCEPT !.time_in_state = @ + 1]
        traffic_density == CountTraffic(l)
        own == traffic_density[l.direction]
        other_density == traffic_density[OppositeDirection(l)]
    IN IF l.state = "green"
       THEN IF /\ l.time_in_state >= l.min_green_time
               /\ \/ own = 0 /\ other_density > 0
                  \/ l.time_in_state >= l.max_green_time
            THEN SwitchToRed(l) ELSE l
       ELSE IF /\ l.time_in_state >= l.min_red_time
               /\ (2 * own > 3 * other_density \/ other_density = 0)
            THEN SwitchToGreen(l) ELSE l

\* Mutant of LightAfterStep: a red light turns green as soon as its own
\* traffic exceeds the opposite traffic.
LightAfterStepEvenRatio(l0) ==
    LET l == [l0 EXCEPT !.time_in_state = @ + 1]
        traffic_density == CountTraffic(l)
        own == traffic_density[l.direction]
        other_density == traffic_density[OppositeDirection(l)]
    IN IF l.state = "green"
       THEN IF /\ l.time_in_state >= l.min_green_time
               /\ (own = 0 \/ l.time_in_state >= l.max_green_time)
               /\ other_density > 0
            THEN SwitchToRed(l) ELSE l
       ELSE IF /\ l.time_in_state >= l.min_red_time
               /\ (own > other_density \/ other_density = 0)
            THEN SwitchToGreen(l) ELSE l

\* TrafficLight.step
LightAfterStep(l0) ==
    LET l == [l0 EXCEPT !.time_in_state = @ + 1]
        traffic_density == CountTraffic(l)
        own == traffic_density[l.direction]
        other_density == traffic_density[OppositeDirection(l)]
    IN IF l.state = "green"
       THEN IF /\ l.time_in_state >= l.min_green_time
               /\ (own = 0 \/ l.time_in_state >= l.max_green_time)
               /\ other_density > 0
            THEN SwitchToRed(l) ELSE l
       ELSE IF /\ l.time_in_state >= l.min_red_time
               \* own > other_density * 1.5
               /\ (2 * own > 3 * other_density \/ other_density = 0)
            THEN SwitchToGreen(l) ELSE l

(* ------------------------------------------------------------------ *)
(* Taxi                                                                *)
(* ------------------------------------------------------------------ *)

\* Taxi._get_capacity
GetCapacity(taxi_type) ==
    CASE taxi_type = "economy" -> 1
      [] taxi_type = "premium" -> 2
      [] taxi_type = "luxury" -> 3
      [] OTHER -> 1

\* Taxi.__init__
NewTaxi(position, taxi_type) ==
    [position |-> position, taxi_type |-> taxi_type, passengers |-> << >>,
     destinations |-> << >>, path |-> << >>, status |-> "idle",
     total_distance |-> 0, total_passengers |-> 0, revenue |-> 0,
     capacity |-> GetCapacity(taxi_type)]

\* Mutant of CanMoveTo: the light's general is_green() check for every move.
CanMoveToWhenGreen(from, pos) ==
    LET lights == {k \in grid[pos] : IsLight(k)}
    IN IF lights = {} THEN TRUE
       ELSE IsGreen(light[CHOOSE k \in lights : TRUE])

\* Taxi._can_move_to: the traffic light of the target cell decides.
CanMoveTo(from, pos) ==
    LET lights == {k \in grid[pos] : IsLight(k)}
    IN IF lights = {} THEN TRUE
       ELSE LET agent == light[CHOOSE k \in lights : TRUE]
                dx == pos[1] - from[1]
                dy == pos[2] - from[2]
            IN IF Abs(dx) > Abs(dy) THEN IsGreenForDirection(agent, "horizontal")
               ELSE IF Abs(dy) > Abs(dx) THEN IsGreenForDirection(agent, "vertical")
               ELSE IsGreen(agent)

\* priority_score of Taxi._find_passenger
PriorityScore(priority) ==
    CASE priority = "emergency" -> 3
      [] priority = "vip" -> 2
      [] priority = "regular" -> 1
      [] OTHER -> 1

\* Mutant of AvailablePassengers: passengers onboard a taxi are candidates too.
AvailablePassengersOnboardToo(tx) ==
    LET waiting == SelectSeq(schedule, LAMBDA k :
                       /\ IsPassenger(k)
                       /\ passenger[k].status \in {"waiting", "in_taxi"}
                       /\ Len(tx.passengers) < tx.capacity)
    IN [i \in 1..Len(waiting) |->
           <<waiting[i],
             ManhattanDistance(tx.position, passenger[waiting[i]].position),
             PriorityScore(passenger[waiting[i]].priority)>>]

\* available_passengers of Taxi._find_passenger: <<agent, distance, priority_score>>
\* of the waiting passengers, in schedule order.
AvailablePassengers(tx) ==
    LET waiting == SelectSeq(schedule, LAMBDA k :
                       /\ IsPassenger(k)
                       /\ passenger[k].status = "waiting"
                       /\ Len(tx.passengers) < tx.capacity)
    IN [i \in 1..Len(waiting) |->
           <<waiting[i],
             ManhattanDistance(tx.position, passenger[waiting[i]].position),
             PriorityScore(passenger[waiting[i]].priority)>>]

\* Mutant of KeyLess: the key is the distance alone.
KeyLessByDistance(a, b) == a[2] < b[2]

\* Mutant of KeyLess: the key is the priority alone.
KeyLessByPriority(a, b) == 0 - a[3] < 0 - b[3]

\* The sort key (-priority_score, distance), compared as Python compares tuples.
KeyLess(a, b) == (0 - a[3] < 0 - b[3]) \/ (a[3] = b[3] /\ a[2] < b[2])

RECURSIVE InsertSorted(_, _)
InsertSorted(s, x) ==
    IF s = << >> THEN <<x>>
    ELSE IF KeyLess(x, Head(s)) THEN <<x>> \o s
    ELSE <<Head(s)>> \o InsertSorted(Tail(s), x)

\* list.sort(key=...): stable, ascending by key.
RECURSIVE SortCandidates(_)
SortCandidates(s) ==
    IF s = << >> THEN << >>
    ELSE InsertSorted(SortCandidates(SubSeq(s, 1, Len(s) - 1)), s[Len(s)])

\* nearest_passenger of Taxi._find_passenger
NearestPassenger(tx) == SortCandidates(AvailablePassengers(tx))[1][1]

RemoveAt(s, i) == SubSeq(s, 1, i - 1) \o SubSeq(s, i + 1, Len(s))

\* Mutant of NearestIndex: the destinations are taken in list order.
FirstIndex(current, remaining) == 1

\* min(remaining, key=distance from current): the first minimal entry.
NearestIndex(current, remaining) ==
    CHOOSE i \in 1..Len(remaining) :
        /\ \A j \in 1..Len(remaining) :
               ManhattanDistance(current, remaining[i]) <= ManhattanDistance(current, remaining[j])
        /\ \A j \in 1..(i - 1) :
               ManhattanDistance(current, remaining[j]) > ManhattanDistance(current, remaining[i])

\* The while loop of Taxi._plan_route: the routes it can build.
RECURSIVE RoutesFrom(_, _)
RoutesFrom(current, remaining) ==
    IF remaining = << >> THEN {<< >>}
    ELSE LET i == NearestIndex(current, remaining)
             nearest == remaining[i]
         IN {p \o r : p \in FindPath(current, nearest),
                      r \in RoutesFrom(nearest, RemoveAt(remaining, i))}

\* Taxi._plan_route: the taxi with its path replanned.
PlanRoute(tx) ==
    IF tx.destinations = << >> THEN {tx}
    ELSE {[tx EXCEPT !.path = r] : r \in RoutesFrom(tx.position, tx.destinations)}

\* Mutant of Fare: every priority pays the base fare.
FlatFare(priority) == 10

\* priority_multiplier * base_fare of Taxi._transport_passengers
Fare(priority) ==
    CASE priority = "emergency" -> 20
      [] priority = "vip" -> 15
      [] priority = "regular" -> 10
      [] OTHER -> 10

\* The part of the world one taxi step reads and writes.
World(tx, ps, g, s) == [tx |-> tx, passenger |-> ps, grid |-> g, schedule |-> s]

\* Taxi._random_move
RandomMove(tx, key) ==
    LET neighbors == GetNeighborhood(tx.position, FALSE, FALSE)
        road_neighbors == {n \in neighbors : n \in Cells}
    IN IF road_neighbors = {} THEN {World(tx, passenger, grid, schedule)}
       ELSE {IF CanMoveTo(tx.position, next_pos)
             THEN World([tx EXCEPT !.position = next_pos], passenger,
                        MoveAgent(grid, key, next_pos), schedule)
             ELSE World(tx, passenger, grid, schedule) : next_pos \in road_neighbors}

\* Mutant of PickUp: the destination of the passenger is not recorded.
PickUpWithoutDestination(tx, key, nearest_passenger, g) ==
    LET tx1 == [tx EXCEPT !.passengers = Append(@, nearest_passenger),
                          !.status = "transporting"]
        ps == [passenger EXCEPT ![nearest_passenger].status = "in_taxi"]
    IN {World(tx2, ps, g, schedule) : tx2 \in PlanRoute(tx1)}

\* The pickup branch of Taxi._find_passenger, once the taxi stands at next_pos.
PickUp(tx, key, nearest_passenger, g) ==
    LET tx1 == [tx EXCEPT !.passengers = Append(@, nearest_passenger),
                          !.destinations = Append(@, passenger[nearest_passenger].destination),
                          !.status = "transporting"]
        ps == [passenger EXCEPT ![nearest_passenger].status = "in_taxi"]
    IN {World(tx2, ps, g, schedule) : tx2 \in PlanRoute(tx1)}

\* Taxi._find_passenger
FindPassenger(tx, key) ==
    IF AvailablePassengers(tx) # << >>
    THEN LET nearest_passenger == NearestPassenger(tx)
             pickup_location == passenger[nearest_passenger].position
             tx1 == [tx EXCEPT !.status = "picking_up"]
         IN UNION {
              IF path = << >>
              THEN {World([tx1 EXCEPT !.path = path], passenger, grid, schedule)}
              ELSE LET next_pos == Head(path)
                       tx2 == [tx1 EXCEPT !.path = Tail(path)]
                   IN IF ~CanMoveTo(tx.position, next_pos)
                      THEN {World(tx2, passenger, grid, schedule)}
                      ELSE LET tx3 == [tx2 EXCEPT !.position = next_pos,
                                                  !.total_distance = @ + 1]
                               g == MoveAgent(grid, key, next_pos)
                           IN IF next_pos = pickup_location
                              THEN PickUp(tx3, key, nearest_passenger, g)
                              ELSE {World(tx3, passenger, g, schedule)}
              : path \in FindPath(tx.position, pickup_location)}
    ELSE RandomMove(tx, key)

\* Mutant of MovePassengers: the position fields move, the grid entries do not.
RECURSIVE MovePassengersFieldOnly(_, _, _)
MovePassengersFieldOnly(w, onboard, next_pos) ==
    IF onboard = << >> THEN w
    ELSE MovePassengersFieldOnly(
             [w EXCEPT !.passenger[Head(onboard)].position = next_pos],
             Tail(onboard), next_pos)

\* Mutant of MovePassengers: the grid entries move, the position fields do not.
RECURSIVE MovePassengersGridOnly(_, _, _)
MovePassengersGridOnly(w, onboard, next_pos) ==
    IF onboard = << >> THEN w
    ELSE MovePassengersGridOnly(
             [w EXCEPT !.grid = MoveAgent(@, Head(onboard), next_pos)],
             Tail(onboard), next_pos)

\* "Move all passengers with taxi" of Taxi._transport_passengers
RECURSIVE MovePassengers(_, _, _)
MovePassengers(w, onboard, next_pos) ==
    IF onboard = << >> THEN w
    ELSE MovePassengers(
             [w EXCEPT !.grid = MoveAgent(@, Head(onboard), next_pos),
                       !.passenger[Head(onboard)].position = next_pos],
             Tail(onboard), next_pos)

\* Mutant of PassengersToDrop: every onboard passenger is dropped, wherever
\* the taxi is.
PassengersToDropAnywhere(tx) == [i \in 1..Len(tx.destinations) |-> i]

\* passengers_to_drop of Taxi._transport_passengers: the indices, ascending.
PassengersToDrop(tx) ==
    SelectSeq([i \in 1..Len(tx.destinations) |-> i],
              LAMBDA i : tx.position = tx.destinations[i])

\* Mutant of DropOff: the passenger is taken out without being marked arrived.
RECURSIVE DropOffWithoutArrival(_, _)
DropOffWithoutArrival(w, to_drop) ==
    IF to_drop = << >> THEN w
    ELSE LET i == to_drop[Len(to_drop)]
             p == w.tx.passengers[i]
         IN DropOffWithoutArrival(
                [w EXCEPT !.grid = RemoveAgent(@, p),
                          !.schedule = Remove(@, p),
                          !.tx.passengers = RemoveAt(@, i),
                          !.tx.destinations = RemoveAt(@, i),
                          !.tx.total_passengers = @ + 1,
                          !.tx.revenue = @ + Fare(w.passenger[p].priority)],
                SubSeq(to_drop, 1, Len(to_drop) - 1))

\* The drop-off loop of Taxi._transport_passengers, over the indices reversed.
RECURSIVE DropOff(_, _)
DropOff(w, to_drop) ==
    IF to_drop = << >> THEN w
    ELSE LET i == to_drop[Len(to_drop)]
             p == w.tx.passengers[i]
         IN DropOff(
                [w EXCEPT !.passenger[p].status = "arrived",
                          !.grid = RemoveAgent(@, p),
                          !.schedule = Remove(@, p),
                          !.tx.passengers = RemoveAt(@, i),
                          !.tx.destinations = RemoveAt(@, i),
                          !.tx.total_passengers = @ + 1,
                          !.tx.revenue = @ + Fare(w.passenger[p].priority)],
                SubSeq(to_drop, 1, Len(to_drop) - 1))

\* Mutant of AfterDropOff: the taxi that dropped its last passenger keeps its
\* status.
AfterDropOffKeepingStatus(w) ==
    IF Len(w.tx.passengers) = 0
    THEN {[w EXCEPT !.tx.destinations = << >>, !.tx.path = << >>]}
    ELSE IF w.tx.path = << >> /\ w.tx.destinations # << >>
    THEN {[w EXCEPT !.tx = tx2] : tx2 \in PlanRoute(w.tx)}
    ELSE {w}

\* The end of Taxi._transport_passengers: idle when empty, else replan if needed.
AfterDropOff(w) ==
    IF Len(w.tx.passengers) = 0
    THEN {[w EXCEPT !.tx.destinations = << >>, !.tx.status = "idle", !.tx.path = << >>]}
    ELSE IF w.tx.path = << >> /\ w.tx.destinations # << >>
    THEN {[w EXCEPT !.tx = tx2] : tx2 \in PlanRoute(w.tx)}
    ELSE {w}

\* Mutant of Advance: a blocked move still counts as distance driven.
AdvanceCountingBlocked(tx, key) ==
    IF tx.path = << >> THEN {World(tx, passenger, grid, schedule)}
    ELSE LET next_pos == Head(tx.path)
             tx1 == [tx EXCEPT !.path = Tail(@), !.total_distance = @ + 1]
         IN IF ~CanMoveTo(tx.position, next_pos)
            THEN {World(tx1, passenger, grid, schedule)}
            ELSE LET tx2 == [tx1 EXCEPT !.position = next_pos]
                     w1 == World(tx2, passenger, MoveAgent(grid, key, next_pos), schedule)
                     w2 == MovePassengers(w1, tx2.passengers, next_pos)
                     w3 == DropOff(w2, PassengersToDrop(tx2))
                 IN AfterDropOff(w3)

\* Taxi._transport_passengers from "if self.path:" on.
Advance(tx, key) ==
    IF tx.path = << >> THEN {World(tx, passenger, grid, schedule)}
    ELSE LET next_pos == Head(tx.path)
             tx1 == [tx EXCEPT !.path = Tail(@)]
         IN IF ~CanMoveTo(tx.position, next_pos)
            THEN {World(tx1, passenger, grid, schedule)}
            ELSE LET tx2 == [tx1 EXCEPT !.position = next_pos, !.total_distance = @ + 1]
                     w1 == World(tx2, passenger, MoveAgent(grid, key, next_pos), schedule)
                     w2 == MovePassengers(w1, tx2.passengers, next_pos)
                     w3 == DropOff(w2, PassengersToDrop(tx2))
                 IN AfterDropOff(w3)

\* Taxi._transport_passengers
TransportPassengers(tx, key) ==
    LET planned == IF tx.path = << >> /\ tx.destinations # << >>
                   THEN PlanRoute(tx) ELSE {tx}
    IN UNION {Advance(tx1, key) : tx1 \in planned}

\* Taxi.step: the worlds one step of the taxi can produce.
TaxiAfterStep(key) ==
    IF Len(taxi[key].passengers) = 0
    THEN FindPassenger(taxi[key], key)
    ELSE TransportPassengers(taxi[key], key)

(* ------------------------------------------------------------------ *)
(* CityModel                                                           *)
(* ------------------------------------------------------------------ *)

\* The taxi type of the i-th taxi in CityModel._create_taxis:
\* int(n * 0.6) and int(n * 0.9) are 6n \div 10 and 9n \div 10 for the n used here.
TaxiType(i, num_taxis) ==
    IF i < (num_taxis * 6) \div 10 THEN "economy"
    ELSE IF i < (num_taxis * 9) \div 10 THEN "premium"
    ELSE "luxury"

\* CityModel._identify_intersections, in node order.
IdentifyIntersections(num_traffic_lights) ==
    LET intersections == SelectSeq(NodeList, LAMBDA node : Degree(node) >= 3)
    IN IF intersections # << >> THEN intersections
       ELSE SubSeq(NodeList, 1, IF num_traffic_lights < Len(NodeList)
                                THEN num_traffic_lights ELSE Len(NodeList))

\* Mutant of SelectedIntersections: the draws may repeat an intersection.
SelectedIntersectionsRepeating(num_traffic_lights) ==
    LET intersections == IdentifyIntersections(num_traffic_lights)
        n == IF num_traffic_lights < Len(intersections)
             THEN num_traffic_lights ELSE Len(intersections)
    IN {[i \in 1..n |-> intersections[f[i]]] : f \in [1..n -> 1..Len(intersections)]}

\* random.sample(intersections, min(num_traffic_lights, len(intersections))):
\* the sequences of that many distinct entries.
SelectedIntersections(num_traffic_lights) ==
    LET intersections == IdentifyIntersections(num_traffic_lights)
        n == IF num_traffic_lights < Len(intersections)
             THEN num_traffic_lights ELSE Len(intersections)
    IN {[i \in 1..n |-> intersections[f[i]]] :
            f \in {g \in [1..n -> 1..Len(intersections)] :
                      \A a, b \in 1..n : a # b => g[a] # g[b]}}

\* CityModel._create_taxis: the taxis by key, given the drawn positions.
CreateTaxis(positions) ==
    [k \in {TaxiKey(i - 1) : i \in 1..Len(positions)} |->
        NewTaxi(positions[k[2] + 1], TaxiType(k[2], Len(positions)))]

\* CityModel._create_traffic_lights: the lights by key, given the sample.
CreateTrafficLights(selected) ==
    [k \in {LightKey(i - 1) : i \in 1..Len(selected)} |->
        NewLight(selected[k[2] + 1], IF k[2] % 2 = 0 THEN "horizontal" ELSE "vertical")]

\* The grid after the place_agent calls of construction.
InitialGrid(taxis, lights) ==
    [c \in Cells |-> {k \in DOMAIN taxis : taxis[k].position = c}
                     \cup {k \in DOMAIN lights : lights[k].position = c}]

\* No derived query has been called since the last step() began.
NoMetrics == [calls |-> 0]

\* sum(p.wait_time for p in waiting_passengers)
RECURSIVE SumWaitTime(_)
SumWaitTime(ps) ==
    IF ps = {} THEN 0
    ELSE LET p == CHOOSE q \in ps : TRUE
         IN passenger[p].wait_time + SumWaitTime(ps \ {p})

\* CityModel._calculate_avg_wait_time, as the fraction <<sum, count>>.
CalculateAvgWaitTime ==
    LET waiting_passengers ==
            {k \in Scheduled : IsPassenger(k) /\ passenger[k].status = "waiting"}
    IN IF waiting_passengers # {}
       THEN <<SumWaitTime(waiting_passengers), Cardinality(waiting_passengers)>>
       ELSE <<0, 1>>

\* CityModel._calculate_taxi_utilization, as the fraction <<active * 100, taxis>>.
CalculateTaxiUtilization ==
    LET taxis == {k \in Scheduled : IsTaxi(k)}
        active == Cardinality({t \in taxis : taxi[t].status # "idle"})
    IN IF taxis # {} THEN <<active * 100, Cardinality(taxis)>> ELSE <<0, 1>>

\* CityModel._calculate_traffic_density, as the fraction <<occupied * 100, cells>>.
CalculateTrafficDensity ==
    LET occupied_cells ==
            Cardinality({c \in DOMAIN grid : \E a \in grid[c] : IsTaxi(a)})
        total_cells == params.width * params.height
    IN IF total_cells > 0 THEN <<occupied_cells * 100, total_cells>> ELSE <<0, 1>>

\* CityModel.__init__ for the given arguments: the parameters, taxis and lights.
Constructed(width, height, num_taxis, num_traffic_lights, passenger_spawn_rate, enable_rush_hour) ==
    /\ params = [width |-> width, height |-> height,
                 num_taxis |-> num_taxis, num_traffic_lights |-> num_traffic_lights,
                 passenger_spawn_rate |-> passenger_spawn_rate,
                 enable_rush_hour |-> enable_rush_hour, enable_weather |-> FALSE,
                 rush_hour_multiplier |-> 2]
    /\ weather = "clear"
    /\ \E positions \in [1..num_taxis -> Cells] :
           taxi = CreateTaxis(positions)
    /\ \E selected \in SelectedIntersections(num_traffic_lights) :
           light = CreateTrafficLights(selected)
    /\ running = TRUE
    /\ pc = "idle"
    /\ todo = {}
    /\ calls = << >>
    /\ metrics = NoMetrics

\* schedule.agents after construction: the taxis, then the lights.
InitialSchedule ==
    [i \in 1..(Cardinality(DOMAIN taxi) + Cardinality(DOMAIN light)) |->
        IF i <= Cardinality(DOMAIN taxi) THEN TaxiKey(i - 1)
        ELSE LightKey(i - 1 - Cardinality(DOMAIN taxi))]

\* The rest of the state right after construction: tick 0, no passenger.
Fresh ==
    /\ rush_hour_active = FALSE
    /\ passenger = << >>
    /\ schedule = InitialSchedule
    /\ grid = InitialGrid(taxi, light)
    /\ time = 0

\* CityModel.__init__ for the given arguments, with no step() made yet.
Construct(width, height, num_taxis, num_traffic_lights, passenger_spawn_rate, enable_rush_hour) ==
    /\ Constructed(width, height, num_taxis, num_traffic_lights,
                   passenger_spawn_rate, enable_rush_hour)
    /\ Fresh

\* Mutant of UpdateRushHour: the last tick of each range is left out.
UpdateRushHourOpenEnded(step) == (50 <= step /\ step < 150) \/ (300 <= step /\ step < 400)

\* CityModel._update_rush_hour
UpdateRushHour(step) == (50 <= step /\ step <= 150) \/ (300 <= step /\ step <= 400)

\* rush_hour_active after the first lines of CityModel.step
RushHourAfterUpdate ==
    IF params.enable_rush_hour THEN UpdateRushHour(time) ELSE rush_hour_active

\* effective_spawn_rate of CityModel.step, in percent.
EffectiveSpawnRate ==
    IF RushHourAfterUpdate
    THEN params.passenger_spawn_rate * params.rush_hour_multiplier
    ELSE params.passenger_spawn_rate

\* CityModel._update_weather: the weathers random.choice may give.
WeatherAfterUpdate ==
    IF params.enable_weather THEN {"clear", "rain", "snow"} \cup {weather} ELSE {weather}

\* The start of schedule.step(): the shuffled buffer of all scheduled keys.
StartActivation(sched) ==
    /\ todo' = SeqToSet(sched)
    /\ calls' = [k \in SeqToSet(sched) |-> 0]
    /\ pc' = "stepping"

\* Mutant of SpawnPassenger: the destination is drawn once and may be the
\* origin.
SpawnPassengerAnywhere ==
    \E start_pos \in Cells, priority \in Priorities :
      \E end_pos \in Cells :
        LET key == PassengerKey(Cardinality(DOMAIN passenger) + 1)
            p == NewPassenger(start_pos, end_pos, priority, time)
        IN /\ passenger' = [k \in DOMAIN passenger \cup {key} |->
                               IF k = key THEN p ELSE passenger[k]]
           /\ schedule' = Append(schedule, key)
           /\ grid' = PlaceAgent(grid, key, start_pos)
           /\ StartActivation(schedule')

\* CityModel._spawn_passenger: one more passenger, scheduled and placed.
SpawnPassenger ==
    \E start_pos \in Cells, priority \in Priorities :
      \E end_pos \in Cells \ {start_pos} :
        LET key == PassengerKey(Cardinality(DOMAIN passenger) + 1)
            p == NewPassenger(start_pos, end_pos, priority, time)
        IN /\ passenger' = [k \in DOMAIN passenger \cup {key} |->
                               IF k = key THEN p ELSE passenger[k]]
           /\ schedule' = Append(schedule, key)
           /\ grid' = PlaceAgent(grid, key, start_pos)
           /\ StartActivation(schedule')

\* CityModel.step up to schedule.step(), when random.random() < effective_spawn_rate.
BeginStepSpawn ==
    /\ pc = "idle"
    /\ time < bound.max_time
    /\ Cardinality(DOMAIN passenger) < bound.max_passengers
    /\ EffectiveSpawnRate > 0
    /\ rush_hour_active' = RushHourAfterUpdate
    /\ weather' \in WeatherAfterUpdate
    /\ SpawnPassenger
    /\ metrics' = NoMetrics
    /\ UNCHANGED <<dash, params, bound, time, running, taxi, light>>

\* CityModel.step up to schedule.step(), when no passenger is spawned.
BeginStepNoSpawn ==
    /\ pc = "idle"
    /\ time < bound.max_time
    /\ EffectiveSpawnRate < 100
    /\ rush_hour_active' = RushHourAfterUpdate
    /\ weather' \in WeatherAfterUpdate
    /\ StartActivation(schedule)
    /\ metrics' = NoMetrics
    /\ UNCHANGED <<dash, params, bound, time, running, schedule, grid, taxi, passenger, light>>

\* CityModel.step reaching _spawn_passenger on a road network of fewer than two
\* nodes: end_pos == start_pos whatever is drawn (both are None when there is
\* no node), so the loop `while end_pos == start_pos` is entered.
BeginStepSpawnStuck ==
    /\ pc = "idle"
    /\ time < bound.max_time
    /\ EffectiveSpawnRate > 0
    /\ Cardinality(Cells) < 2
    /\ rush_hour_active' = RushHourAfterUpdate
    /\ weather' \in WeatherAfterUpdate
    /\ pc' = "spawning"
    /\ metrics' = NoMetrics
    /\ UNCHANGED <<dash, params, bound, time, running, schedule, grid, taxi, passenger,
                   light, todo, calls>>

\* One more turn of `while end_pos == start_pos`: the new draw is the same.
Redraw ==
    /\ pc = "spawning"
    /\ Cardinality(Cells) < 2
    /\ UNCHANGED vars

\* Mutant of Query: the waiting passengers age when the average is taken.
QueryAgeing ==
    /\ pc = "idle"
    /\ metrics.calls < MaxQueries
    /\ metrics' = [calls |-> metrics.calls + 1,
                   avg_wait_time |-> CalculateAvgWaitTime,
                   taxi_utilization |-> CalculateTaxiUtilization,
                   traffic_density |-> CalculateTrafficDensity]
    /\ passenger' = [k \in DOMAIN passenger |->
                        IF k \in Scheduled /\ passenger[k].status = "waiting"
                        THEN [passenger[k] EXCEPT !.wait_time = @ + 1]
                        ELSE passenger[k]]
    /\ UNCHANGED <<dash, params, bound, time, running, schedule, grid, taxi, light,
                   rush_hour_active, weather, pc, todo, calls>>

\* A caller asks for the three derived metrics between two step() calls.
Query ==
    /\ pc = "idle"
    /\ metrics.calls < MaxQueries
    /\ metrics' = [calls |-> metrics.calls + 1,
                   avg_wait_time |-> CalculateAvgWaitTime,
                   taxi_utilization |-> CalculateTaxiUtilization,
                   traffic_density |-> CalculateTrafficDensity]
    /\ UNCHANGED <<dash, params, bound, time, running, schedule, grid, taxi, passenger,
                   light, rush_hour_active, weather, pc, todo, calls>>

\* Mutant of Visit: the visited key stays in the buffer.
VisitAgain(key) ==
    /\ todo' = todo
    /\ calls' = [calls EXCEPT ![key] = @ + 1]

\* One visit of schedule.step(): the key is taken out of the buffer, and its
\* agent, when still scheduled, is stepped once.
Visit(key) ==
    /\ todo' = todo \ {key}
    /\ calls' = [calls EXCEPT ![key] = @ + 1]

\* schedule.step() reaching a taxi.
StepTaxi ==
    /\ pc = "stepping"
    /\ \E key \in todo :
         /\ IsTaxi(key) /\ key \in Scheduled
         /\ \E w \in TaxiAfterStep(key) :
              /\ taxi' = [taxi EXCEPT ![key] = w.tx]
              /\ passenger' = w.passenger
              /\ grid' = w.grid
              /\ schedule' = w.schedule
         /\ Visit(key)
    /\ UNCHANGED <<metrics, dash, params, bound, time, running, light, rush_hour_active, weather, pc>>

\* schedule.step() reaching a passenger.
StepPassenger ==
    /\ pc = "stepping"
    /\ \E key \in todo :
         /\ IsPassenger(key) /\ key \in Scheduled
         /\ passenger' = [passenger EXCEPT ![key] = PassengerAfterStep(@)]
         /\ IF PassengerExpires(passenger[key])
            THEN /\ grid' = RemoveAgent(grid, key)
                 /\ schedule' = Remove(schedule, key)
            ELSE UNCHANGED <<grid, schedule>>
         /\ Visit(key)
    /\ UNCHANGED <<metrics, dash, params, bound, time, running, taxi, light, rush_hour_active, weather, pc>>

\* schedule.step() reaching a traffic light.
StepLight ==
    /\ pc = "stepping"
    /\ \E key \in todo :
         /\ IsLight(key) /\ key \in Scheduled
         /\ light' = [light EXCEPT ![key] = LightAfterStep(@)]
         /\ Visit(key)
    /\ UNCHANGED <<metrics, dash, params, bound, time, running, schedule, grid, taxi, passenger,
                   rush_hour_active, weather, pc>>

\* schedule.step() reaching the key of an agent removed earlier in the tick.
SkipRemoved ==
    /\ pc = "stepping"
    /\ \E key \in todo :
         /\ key \notin Scheduled
         /\ todo' = todo \ {key}
    /\ UNCHANGED <<metrics, dash, params, bound, time, running, schedule, grid, taxi, passenger, light,
                   rush_hour_active, weather, pc, calls>>

\* Mutant of EndStep: the run stops one tick later.
EndStepLate ==
    /\ pc = "stepping"
    /\ todo = {}
    /\ time' = time + 1
    /\ running' = IF time' > 1000 THEN FALSE ELSE running
    /\ pc' = "idle"
    /\ UNCHANGED <<metrics, dash, params, bound, schedule, grid, taxi, passenger, light,
                   rush_hour_active, weather, todo, calls>>

\* The end of schedule.step() (time += 1) and of CityModel.step().
EndStep ==
    /\ pc = "stepping"
    /\ todo = {}
    /\ time' = time + 1
    /\ running' = IF time' >= 1000 THEN FALSE ELSE running
    /\ pc' = "idle"
    /\ UNCHANGED <<metrics, dash, params, bound, schedule, grid, taxi, passenger, light,
                   rush_hour_active, weather, todo, calls>>

(* ------------------------------------------------------------------ *)
(* Dashboard driver (src/dashboard/app.py)                             *)
(* ------------------------------------------------------------------ *)

\* The dashboard holds the model in the global `model` and the flag `running`,
\* and touches them from several threads without any lock: the background
\* thread of run_simulation, and the request threads that run the callbacks
\* control_simulation (Start, Pause, Step, Reset) and update_dashboard.  A
\* CityModel object is seen here through schedule.time and its running flag;
\* a model.step() is entered, reads schedule.time, and writes it back
\* incremented on the way out.  Charts and data_history are left out.

\* A CityModel as the dashboard drives it.
NewModel == [time |-> 0, running |-> TRUE]

\* app.py once imported: no thread, running = False, model = CityModel(...).
\* paused, grace and fresh record the requests made: whether the last of the
\* Start, Pause and Step requests was a Pause, which loop threads had passed
\* the loop test at that Pause without having finished the tick, and whether
\* a Reset has been made that no Start or Step request has followed.
Loaded ==
    dash = [running |-> FALSE, model |-> 1, models |-> <<NewModel>>,
            threads |-> << >>, reading |-> FALSE, paused |-> FALSE, grace |-> {},
            fresh |-> FALSE]

\* The city state, which the dashboard actions leave alone.
cityvars == <<params, bound, time, running, schedule, grid, taxi, passenger, light,
              rush_hour_active, weather, pc, todo, calls, metrics>>

Threads == DOMAIN dash.threads
LoopThreads == {t \in Threads : dash.threads[t].kind = "loop"}

\* The threads that are inside a model.step() call.
InStep == {t \in Threads : dash.threads[t].pc \in {"step", "incr"}}

\* The identifier of the next thread created, if one more can be.
FreeThread == {t \in (1..MaxDashThreads) \ Threads :
                  \A u \in (1..MaxDashThreads) \ Threads : t <= u}

\* threading.Thread(...).start() or a request thread: one more thread.
Spawn(threads, t, kind, at) ==
    [k \in DOMAIN threads \cup {t} |->
        IF k = t THEN [kind |-> kind, pc |-> at, model |-> 0, read |-> 0]
        ELSE threads[k]]

\* A thread returns.
Exit(threads, t) == [k \in DOMAIN threads \ {t} |-> threads[k]]

\* control_simulation, btn-start: start the background thread unless running.
Start ==
    /\ IF dash.running
       THEN dash' = [dash EXCEPT !.paused = FALSE, !.fresh = FALSE]
       ELSE \E t \in FreeThread :
              dash' = [dash EXCEPT !.running = TRUE,
                                   !.threads = Spawn(@, t, "loop", "start"),
                                   !.paused = FALSE, !.fresh = FALSE]
    /\ UNCHANGED cityvars

\* control_simulation, btn-pause.
Pause ==
    /\ dash' = [dash EXCEPT !.running = FALSE,
                            !.paused = TRUE,
                            !.grace = {t \in LoopThreads :
                                dash.threads[t].pc \in {"call", "step", "incr"}}]
    /\ UNCHANGED cityvars

\* control_simulation, btn-step: the request thread is about to call model.step().
StepButton ==
    /\ \E t \in FreeThread :
         dash' = [dash EXCEPT !.threads = Spawn(@, t, "button", "call"),
                              !.paused = FALSE, !.fresh = FALSE]
    /\ UNCHANGED cityvars

\* control_simulation, btn-reset: a new model replaces the global one.
Reset ==
    /\ Len(dash.models) <= MaxResets
    /\ dash' = [dash EXCEPT !.running = FALSE,
                            !.models = Append(@, NewModel),
                            !.model = Len(dash.models) + 1,
                            !.fresh = TRUE]
    /\ UNCHANGED cityvars

\* run_simulation, first statement: running = True.
ThreadRun ==
    /\ \E t \in Threads :
         /\ dash.threads[t].pc = "start"
         /\ dash' = [dash EXCEPT !.running = TRUE, !.threads[t].pc = "test"]
    /\ UNCHANGED cityvars

\* run_simulation: while running and model.running.
ThreadTest ==
    /\ \E t \in Threads :
         /\ dash.threads[t].pc = "test"
         /\ IF dash.running /\ dash.models[dash.model].running
            THEN dash' = [dash EXCEPT !.threads[t].pc = "call"]
            ELSE dash' = [dash EXCEPT !.threads = Exit(@, t), !.grace = @ \ {t}]
    /\ UNCHANGED cityvars

\* model.step() is called on the model the global names at that moment.
EnterStep ==
    /\ \E t \in Threads :
         /\ dash.threads[t].pc = "call"
         /\ dash.models[dash.model].time < MaxDashTime
         /\ dash' = [dash EXCEPT !.threads[t].pc = "step",
                                 !.threads[t].model = dash.model,
                                 !.grace = @ \ {t}]
    /\ UNCHANGED cityvars

\* schedule.step(): self.time + 1 is computed from the value read.
ReadTime ==
    /\ \E t \in Threads :
         /\ dash.threads[t].pc = "step"
         /\ dash' = [dash EXCEPT !.threads[t].pc = "incr",
                                 !.threads[t].read =
                                     dash.models[dash.threads[t].model].time]
    /\ UNCHANGED cityvars

\* schedule.step() stores the new time, CityModel.step() finishes; the loop
\* thread sleeps and comes back to its test, the request thread returns.
FinishStep ==
    /\ \E t \in Threads :
         LET th == dash.threads[t]
             now == th.read + 1
         IN /\ th.pc = "incr"
            /\ dash' = [dash EXCEPT
                  !.models[th.model] =
                      [time |-> now, running |-> IF now >= 1000 THEN FALSE ELSE @.running],
                  !.threads = IF th.kind = "loop"
                              THEN [@ EXCEPT ![t].pc = "test"]
                              ELSE Exit(@, t)]
    /\ UNCHANGED cityvars

\* update_dashboard starts reading the agents and the derived metrics.
BeginRead ==
    /\ ~dash.reading
    /\ dash' = [dash EXCEPT !.reading = TRUE]
    /\ UNCHANGED cityvars

\* update_dashboard returns.
EndRead ==
    /\ dash.reading
    /\ dash' = [dash EXCEPT !.reading = FALSE]
    /\ UNCHANGED cityvars

(* ------------------------------------------------------------------ *)
(* Specifications                                                      *)
(* ------------------------------------------------------------------ *)

\* The run makes max_time step() calls and spawns at most max_passengers.
Bounded(max_time, max_passengers) ==
    bound = [max_time |-> max_time, max_passengers |-> max_passengers]

\* A 2x2 city with one taxi, one traffic light and a positive spawn rate.
InitCity ==
    Construct(2, 2, 1, 1, 10, TRUE) /\ Bounded(MaxTime, MaxPassengers) /\ Loaded

Init == InitCity

Next ==
    \/ BeginStepSpawn
    \/ BeginStepNoSpawn
    \/ StepTaxi
    \/ StepPassenger
    \/ StepLight
    \/ SkipRemoved
    \/ EndStep

Spec == Init /\ [][Next]_vars

\* A 3x1 street with one taxi, no traffic light and a positive spawn rate:
\* several passengers wait for the one taxi.
InitDispatch ==
    Construct(3, 1, 1, 0, 10, TRUE)
    /\ Bounded(MaxDispatchTime, MaxDispatchPassengers) /\ Loaded

NextDispatch ==
    \/ BeginStepSpawn
    \/ BeginStepNoSpawn
    \/ StepTaxi
    \/ StepPassenger
    \/ SkipRemoved
    \/ EndStep

SpecDispatch == InitDispatch /\ [][NextDispatch]_vars

\* A 3x2 city with two taxis, a light on each of its two intersections and
\* spawn rate 0: the taxis explore, the lights adapt.
InitLights == Construct(3, 2, 2, 2, 0, TRUE) /\ Bounded(MaxLightTime, 0) /\ Loaded

NextLights ==
    \/ BeginStepNoSpawn
    \/ StepTaxi
    \/ StepLight
    \/ EndStep

SpecLights == InitLights /\ [][NextLights]_vars

\* A 2x2 city without taxis or lights at tick ExpiryStart, where one passenger,
\* spawned wait_time ticks ago, has been waiting ever since (no other spawn
\* succeeded): the state CityModel(2, 2, 0, 0, rate) is in after ExpiryStart
\* step() calls of such a run.
InitExpiry ==
    /\ Constructed(2, 2, 0, 0, 10, TRUE)
    /\ Bounded(ExpiryStart + MaxExpiryTime, 1 + MaxExpirySpawns)
    /\ Loaded
    /\ time = ExpiryStart
    /\ rush_hour_active = UpdateRushHour(time - 1)
    /\ \E start_pos \in Cells, priority \in Priorities :
         \E end_pos \in Cells \ {start_pos} :
           \E waited \in (GetMaxWaitTime(priority) - ExpirySlack)..GetMaxWaitTime(priority) :
             /\ passenger = [k \in {PassengerKey(1)} |->
                    [NewPassenger(start_pos, end_pos, priority, time - waited)
                        EXCEPT !.wait_time = waited]]
             /\ schedule = <<PassengerKey(1)>>
             /\ grid = PlaceAgent(InitialGrid(taxi, light), PassengerKey(1), start_pos)

NextExpiry ==
    \/ BeginStepSpawn
    \/ BeginStepNoSpawn
    \/ StepPassenger
    \/ EndStep

SpecExpiry == InitExpiry /\ [][NextExpiry]_vars

\* The city runs together with the expiry runs: pickups, drop-offs and expiries.
InitLifecycle == InitCity \/ InitExpiry

SpecLifecycle == InitLifecycle /\ [][Next]_vars

\* The city runs together with the traffic-light runs: taxis that pick up,
\* transport and explore, lights that are green and red.
InitTraffic == InitCity \/ InitLights

SpecTraffic == InitTraffic /\ [][Next]_vars

\* CityModel(0, 0, 0, 0, rate): a model whose road network has no node.
InitEmpty == Construct(0, 0, 0, 0, 10, TRUE) /\ Bounded(MaxTime, MaxPassengers) /\ Loaded

\* The city runs together with the runs on the empty road network.
InitSpawn == InitCity \/ InitEmpty

NextSpawn ==
    \/ BeginStepSpawn
    \/ BeginStepSpawnStuck
    \/ Redraw
    \/ BeginStepNoSpawn
    \/ StepTaxi
    \/ StepPassenger
    \/ StepLight
    \/ SkipRemoved
    \/ EndStep

SpecSpawn == InitSpawn /\ [][NextSpawn]_vars

\* Spawn rates, in percent, outside [0, 1] that a caller may pass.
InvalidSpawnRates == {-10, 150}

\* CityModel(2, 2, 1, 1, rate) for a spawn rate outside [0, 1].
InitInvalidRate ==
    \E rate \in InvalidSpawnRates :
        Construct(2, 2, 1, 1, rate, TRUE) /\ Bounded(MaxTime, MaxPassengers) /\ Loaded

\* Models constructed from valid and from invalid arguments.
InitConfig == InitSpawn \/ InitInvalidRate

SpecConfig == InitConfig /\ [][NextSpawn]_vars

\* A 2x2 city without taxis or lights at tick RunStart, in which no spawn has
\* succeeded so far: the state CityModel(2, 2, 0, 0, rate) is in after RunStart
\* step() calls of such a run.
InitLate ==
    /\ Constructed(2, 2, 0, 0, 10, TRUE)
    /\ Bounded(RunStart + MaxRunTime, MaxRunSpawns)
    /\ Loaded
    /\ time = RunStart
    /\ rush_hour_active = UpdateRushHour(time - 1)
    /\ passenger = << >>
    /\ schedule = InitialSchedule
    /\ grid = InitialGrid(taxi, light)

\* The city runs together with the late runs, which pass tick 1000.
InitRunning == InitCity \/ InitLate

SpecRunning == InitRunning /\ [][Next]_vars

\* A 3x2 city with one taxi, no traffic light and at most one passenger: the
\* taxi looks for paths between any two cells of the lattice.
InitPaths == Construct(3, 2, 1, 0, 10, TRUE) /\ Bounded(MaxPathTime, 1) /\ Loaded

SpecPaths == InitPaths /\ [][NextDispatch]_vars

\* The dispatch runs with the derived queries called between the step() calls.
NextQueries ==
    \/ BeginStepSpawn
    \/ BeginStepNoSpawn
    \/ StepTaxi
    \/ StepPassenger
    \/ SkipRemoved
    \/ EndStep
    \/ Query

SpecQueries == InitDispatch /\ [][NextQueries]_vars

\* Cities of each shape with one taxi, spawn rate 0 and 0 to MaxPlacementLights
\* traffic lights asked for: fewer than, as many as and more than the
\* intersections there are.
InitPlacement ==
    \E size \in {<<2, 2>>, <<3, 1>>, <<3, 2>>}, num_traffic_lights \in 0..MaxPlacementLights :
        /\ Construct(size[1], size[2], 1, num_traffic_lights, 0, TRUE)
        /\ Bounded(MaxPlacementTime, 0)
        /\ Loaded

SpecPlacement == InitPlacement /\ [][NextLights]_vars

\* A 2x2 city with two taxis, spawn rate 0 and one light, which stands on the
\* fallback intersection (0,0): long enough for a green phase to pass
\* max_green_time.
InitLongGreen == Construct(2, 2, 2, 1, 0, TRUE) /\ Bounded(MaxGreenTime, 0) /\ Loaded

SpecLongGreen == InitLongGreen /\ [][NextLights]_vars

\* A 2x2 city with five taxis, spawn rate 0 and one light, `waited` ticks after
\* the light turned red in its fifth step, the earliest it can: the taxis,
\* which only explore, stood on (0,1) or on a tie cell when it switched and
\* have since made one to three moves each, which can take them to any cells.
InitRedPhase ==
    /\ params = [width |-> 2, height |-> 2, num_taxis |-> 5, num_traffic_lights |-> 1,
                 passenger_spawn_rate |-> 0, enable_rush_hour |-> TRUE,
                 enable_weather |-> FALSE, rush_hour_multiplier |-> 2]
    /\ Bounded(NewLight(<<0, 0>>, "horizontal").min_green_time + 2 + MaxRedTime, 0)
    /\ Loaded
    /\ weather = "clear"
    /\ rush_hour_active = FALSE
    /\ running = TRUE
    /\ pc = "idle"
    /\ todo = {}
    /\ calls = << >>
    /\ metrics = NoMetrics
    /\ passenger = << >>
    /\ \E positions \in [1..5 -> Cells] : taxi = CreateTaxis(positions)
    /\ \E waited \in 1..2, selected \in SelectedIntersections(1) :
         /\ time = NewLight(<<0, 0>>, "horizontal").min_green_time + waited
         /\ light = [k \in DOMAIN CreateTrafficLights(selected) |->
                        [SwitchToRed(CreateTrafficLights(selected)[k])
                            EXCEPT !.time_in_state = waited]]
    /\ schedule = InitialSchedule
    /\ grid = InitialGrid(taxi, light)

SpecRedPhase == InitRedPhase /\ [][NextLights]_vars

\* A 3x2 city with one taxi, a light on each of its two intersections and a
\* positive spawn rate, in the last tick before a light can switch: no
\* passenger has been spawned yet, the taxi has explored and stands anywhere,
\* both lights are green since construction.
InitDetour ==
    /\ params = [width |-> 3, height |-> 2, num_taxis |-> 1, num_traffic_lights |-> 2,
                 passenger_spawn_rate |-> 10, enable_rush_hour |-> TRUE,
                 enable_weather |-> FALSE, rush_hour_multiplier |-> 2]
    /\ time = NewLight(<<0, 0>>, "horizontal").min_green_time - 1
    /\ Bounded(time + MaxDetourTime, MaxDetourPassengers)
    /\ Loaded
    /\ weather = "clear"
    /\ rush_hour_active = FALSE
    /\ running = TRUE
    /\ pc = "idle"
    /\ todo = {}
    /\ calls = << >>
    /\ metrics = NoMetrics
    /\ passenger = << >>
    /\ \E positions \in [1..1 -> Cells] : taxi = CreateTaxis(positions)
    /\ \E selected \in SelectedIntersections(2) :
         light = [k \in DOMAIN CreateTrafficLights(selected) |->
                    [CreateTrafficLights(selected)[k] EXCEPT !.time_in_state = time]]
    /\ schedule = InitialSchedule
    /\ grid = InitialGrid(taxi, light)

SpecDetour == InitDetour /\ [][Next]_vars

\* The ticks right before the rush-hour ranges begin and at their last tick,
\* and tick 0.
RushStarts == {0, 49, 150, 299, 400}

\* A 2x2 city without taxis or lights, with rush hour enabled or not, at one of
\* the ticks of RushStarts, in which no spawn has succeeded so far: the state
\* CityModel(2, 2, 0, 0, rate, enable_rush_hour) is in after that many step()
\* calls of such a run.
InitRushHour ==
    \E start \in RushStarts, enable_rush_hour \in BOOLEAN :
        /\ Constructed(2, 2, 0, 0, 10, enable_rush_hour)
        /\ Bounded(start + MaxRushTime, MaxRushSpawns)
        /\ Loaded
        /\ time = start
        /\ rush_hour_active = (enable_rush_hour /\ UpdateRushHour(time - 1))
        /\ passenger = << >>
        /\ schedule = InitialSchedule
        /\ grid = InitialGrid(taxi, light)

SpecRushHour == InitRushHour /\ [][NextExpiry]_vars

\* The destination lists of up to n cells.
DestinationLists(n) == UNION {[1..m -> Cells] : m \in 0..n}

\* _plan_route as a function of its inputs: a taxi of a 3x2 city without
\* lights or passengers, on any cell, with any list of destinations and an
\* old path or none, before the call.
InitPlanRoute ==
    /\ params = [width |-> 3, height |-> 2, num_taxis |-> 1, num_traffic_lights |-> 0,
                 passenger_spawn_rate |-> 0, enable_rush_hour |-> TRUE,
                 enable_weather |-> FALSE, rush_hour_multiplier |-> 2]
    /\ Bounded(0, 0)
    /\ Loaded
    /\ weather = "clear"
    /\ rush_hour_active = FALSE
    /\ running = TRUE
    /\ pc = "idle"
    /\ todo = {}
    /\ calls = << >>
    /\ metrics = NoMetrics
    /\ passenger = << >>
    /\ time = 0
    /\ light = CreateTrafficLights(<< >>)
    /\ \E position \in Cells, destinations \in DestinationLists(MaxDestinations) :
         \E path \in {<< >>, <<position>>} :
           taxi = [k \in {TaxiKey(0)} |->
                     [NewTaxi(position, TaxiType(0, 1))
                         EXCEPT !.destinations = destinations, !.path = path]]
    /\ schedule = InitialSchedule
    /\ grid = InitialGrid(taxi, light)

\* One call of Taxi._plan_route on the taxi.
CallPlanRoute ==
    /\ pc = "idle"
    /\ \E tx \in PlanRoute(taxi[TaxiKey(0)]) :
           taxi' = [taxi EXCEPT ![TaxiKey(0)] = tx]
    /\ pc' = "planned"
    /\ UNCHANGED <<metrics, dash, params, bound, time, running, schedule, grid, passenger,
                   light, rush_hour_active, weather, todo, calls>>

SpecPlanRoute == InitPlanRoute /\ [][CallPlanRoute]_vars

\* A 2x2 city with two taxis, no traffic light, a positive spawn rate and at
\* most one passenger: both taxis head for the same passenger.
InitFleet == Construct(2, 2, 2, 0, 10, TRUE) /\ Bounded(MaxFleetTime, 1) /\ Loaded

SpecFleet == InitFleet /\ [][NextDispatch]_vars

\* The dashboard at work on its model: requests arrive in any order while the
\* threads run.
InitDashboard == Construct(2, 2, 0, 0, 0, TRUE) /\ Bounded(0, 0) /\ Loaded

NextDashboard ==
    \/ Start
    \/ Pause
    \/ StepButton
    \/ Reset
    \/ ThreadRun
    \/ ThreadTest
    \/ EnterStep
    \/ ReadTime
    \/ FinishStep
    \/ BeginRead
    \/ EndRead

SpecDashboard == InitDashboard /\ [][NextDashboard]_vars

(* ------------------------------------------------------------------ *)
(* Claims                                                              *)
(* ------------------------------------------------------------------ *)

PassengerKeys == DOMAIN passenger
TaxiKeys == DOMAIN taxi
LightKeys == DOMAIN light

\* The waiting passengers of the simulation.
WaitingPassengers ==
    {p \in PassengerKeys : p \in Scheduled /\ passenger[p].status = "waiting"}

C2_Lifecycle ==
    [][ /\ \A p \in PassengerKeys :
             LET was == passenger[p].status
                 is == passenger'[p].status
                 live == p \in Scheduled
                 live_after == p \in SeqToSet(schedule')
             IN /\ p \in DOMAIN passenger'
                /\ was # is =>
                      \/ /\ was = "waiting" /\ is = "in_taxi" /\ live /\ live_after
                         /\ \E k \in TaxiKeys : p \in SeqToSet(taxi'[k].passengers)
                      \/ was = "in_taxi" /\ is = "arrived" /\ live /\ ~live_after
                /\ (live /\ ~live_after) =>
                      \/ was = "in_taxi" /\ is = "arrived"
                      \/ was = "waiting" /\ is = "waiting"
                /\ ~live => (~live_after /\ passenger'[p] = passenger[p])
                /\ is = "arrived" => ~live_after
        /\ \A p \in DOMAIN passenger' \ PassengerKeys :
             passenger'[p].status = "waiting" /\ p \in SeqToSet(schedule')
      ]_vars

\* A passenger has been picked up, delivered and removed.
C2_Witness ==
    \E p \in PassengerKeys : passenger[p].status = "arrived" /\ p \notin Scheduled

\* Whether light l gives way to travel along axis.
OpenFor(l, axis) ==
    \/ l.direction = axis /\ l.state = "green"
    \/ l.direction # axis /\ l.state = "red"

\* C3: whenever a taxi changes cell and the cell it enters holds a traffic
\* light, that light is open for the travel axis of the move when the taxi
\* moves: for horizontal travel if |dx| > |dy|, for vertical if |dy| > |dx|.
C3_EnteredLightIsOpen ==
    [][ \A k \in TaxiKeys : \A l \in LightKeys :
          (taxi'[k].position # taxi[k].position /\ light[l].position = taxi'[k].position) =>
              LET dx == taxi'[k].position[1] - taxi[k].position[1]
                  dy == taxi'[k].position[2] - taxi[k].position[2]
              IN /\ Abs(dx) > Abs(dy) => OpenFor(light[l], "horizontal")
                 /\ Abs(dy) > Abs(dx) => OpenFor(light[l], "vertical")
      ]_vars

\* A taxi is about to enter, in its step, the cell of a light that shows red.
C3_Witness ==
    /\ pc = "stepping"
    /\ \E k \in todo \cap TaxiKeys : \E w \in TaxiAfterStep(k) : \E l \in LightKeys :
          /\ k \in Scheduled
          /\ w.tx.position # taxi[k].position
          /\ light[l].position = w.tx.position
          /\ light[l].state = "red"

\* The rank of a priority: emergency above vip above regular.
Rank(priority) ==
    IF priority = "emergency" THEN 3 ELSE IF priority = "vip" THEN 2 ELSE 1

\* The taxis without onboard passengers that have a waiting passenger to select.
Selecting == {k \in TaxiKeys : Len(taxi[k].passengers) = 0 /\ WaitingPassengers # {}}

\* C4: the pickup candidate a taxi without onboard passengers selects is a
\* waiting passenger of the highest priority among all waiting passengers
\* (emergency over vip over regular), whatever the distances.
C4_SelectsHighestPriority ==
    \A k \in Selecting :
        LET c == NearestPassenger(taxi[k])
        IN /\ c \in WaitingPassengers
           /\ \A q \in WaitingPassengers :
                  Rank(passenger[c].priority) >= Rank(passenger[q].priority)

\* A taxi is selecting while an emergency passenger waits farther away than a
\* vip or regular passenger.
C4_Witness ==
    \E k \in Selecting : \E e, q \in WaitingPassengers :
        /\ passenger[e].priority = "emergency"
        /\ passenger[q].priority # "emergency"
        /\ ManhattanDistance(taxi[k].position, passenger[e].position)
             > ManhattanDistance(taxi[k].position, passenger[q].position)

\* The place of an agent in schedule.agents.
ScheduleIndex(k) == CHOOSE i \in 1..Len(schedule) : schedule[i] = k

\* C5: among the waiting passengers of the selected candidate's priority, the
\* candidate is at the smallest Manhattan distance from the taxi, and among
\* those at that distance it is the one created first (first in the schedule).
C5_SelectsNearestThenEarliest ==
    \A k \in Selecting :
        LET c == NearestPassenger(taxi[k])
            dist(p) == Abs(taxi[k].position[1] - passenger[p].position[1])
                       + Abs(taxi[k].position[2] - passenger[p].position[2])
        IN \A q \in WaitingPassengers :
               passenger[q].priority = passenger[c].priority =>
                   /\ dist(c) <= dist(q)
                   /\ dist(c) = dist(q) =>
                          (ScheduleIndex(c) <= ScheduleIndex(q) /\ c[2] <= q[2])

\* A taxi is selecting between two waiting passengers of one priority, the
\* one created first being farther away.
C5_Witness ==
    \E k \in Selecting : \E a, b \in WaitingPassengers :
        /\ passenger[a].priority = passenger[b].priority
        /\ a[2] < b[2]
        /\ ManhattanDistance(taxi[k].position, passenger[a].position)
             > ManhattanDistance(taxi[k].position, passenger[b].position)

\* C6: a taxi without onboard passengers whose selected candidate stands in
\* the taxi's own cell attaches it in that step: the passenger becomes
\* in_taxi, joins passengers/destinations, the taxi becomes transporting.
C6_AttachesAtDistanceZero ==
    [][ \A k \in Selecting :
          (/\ k \in todo /\ k \notin todo'
           /\ passenger[NearestPassenger(taxi[k])].position = taxi[k].position) =>
              LET c == NearestPassenger(taxi[k])
              IN /\ passenger'[c].status = "in_taxi"
                 /\ taxi'[k].passengers = <<c>>
                 /\ taxi'[k].destinations = <<passenger[c].destination>>
                 /\ taxi'[k].status = "transporting"
      ]_vars

\* The waiting limit of a priority.
Threshold(priority) ==
    IF priority = "emergency" THEN 100 ELSE IF priority = "vip" THEN 300 ELSE 500

\* C7: a waiting passenger whose step runs has its wait_time incremented and
\* is removed from the schedule and the grid exactly when the incremented
\* wait_time exceeds its threshold (regular 500, vip 300, emergency 100); so
\* every waiting passenger in the simulation has wait_time <= its threshold.
C7_ExpiresPastThreshold ==
    [][ \A p \in PassengerKeys :
          /\ (p \in todo /\ p \notin todo' /\ p \in WaitingPassengers) =>
                /\ passenger'[p].wait_time = passenger[p].wait_time + 1
                /\ p \in SeqToSet(schedule')
                      <=> passenger'[p].wait_time <= Threshold(passenger[p].priority)
                /\ p \notin SeqToSet(schedule') => \A c \in DOMAIN grid' : p \notin grid'[c]
          /\ (p \in SeqToSet(schedule') /\ passenger'[p].status = "waiting") =>
                passenger'[p].wait_time <= Threshold(passenger[p].priority)
      ]_vars

\* A regular passenger was removed on reaching wait_time 501, while another
\* passenger still waits.
C7_Witness ==
    /\ \E p \in PassengerKeys :
          /\ p \notin Scheduled
          /\ passenger[p].priority = "regular"
          /\ passenger[p].status = "waiting"
          /\ passenger[p].wait_time = 501
    /\ WaitingPassengers # {}

\* C8: a light changes state only in a step that is at least its 5th since
\* construction or its last change when it is green, and at least its 3rd when
\* it is red; time_in_state counts those steps (0 at a change, else one more).
C8_MinimumDwell ==
    [][ \A l \in LightKeys :
          /\ light'[l].state # light[l].state =>
                /\ light[l].state = "green" => light[l].time_in_state + 1 >= 5
                /\ light[l].state = "red" => light[l].time_in_state + 1 >= 3
                /\ light'[l].time_in_state = 0
          /\ (light'[l].state = light[l].state /\ l \in todo /\ l \notin todo') =>
                light'[l].time_in_state = light[l].time_in_state + 1
          /\ ~(l \in todo /\ l \notin todo') => light'[l] = light[l]
      ]_vars

\* A light turned red and, later, green again.
C8_Witness ==
    \E l \in LightKeys :
        /\ pc = "idle"
        /\ light[l].state = "green"
        /\ light[l].time_in_state < time

\* The position field of an agent.
PositionOf(k) ==
    IF IsTaxi(k) THEN taxi[k].position
    ELSE IF IsLight(k) THEN light[k].position
    ELSE passenger[k].position

\* C9: the grid lists an agent in cell c exactly when the agent is scheduled
\* and its position field is c; removed passengers are in no cell.
C9_GridMatchesPositions ==
    /\ \A c \in DOMAIN grid : \A k \in grid[c] :
           k \in Scheduled /\ PositionOf(k) = c
    /\ \A k \in Scheduled :
           PositionOf(k) \in DOMAIN grid /\ k \in grid[PositionOf(k)]
    /\ \A p \in PassengerKeys \ Scheduled : \A c \in DOMAIN grid : p \notin grid[c]

\* At a tick boundary a taxi that picked a passenger up has carried it one
\* cell further, and the grid lists both in the taxi's cell.
C9_Witness ==
    \E k \in TaxiKeys : \E p \in PassengerKeys :
        /\ pc = "idle"
        /\ taxi[k].passengers = <<p>>
        /\ taxi[k].total_distance >= 2
        /\ {k, p} \subseteq grid[taxi[k].position]

\* C10: one step() call advances the tick count by exactly one, at its end,
\* and steps every agent at most once: every agent still scheduled at the end
\* of the call, so every taxi and every light, was stepped exactly once.
C10_EachAgentOncePerTick ==
    [][ /\ time' # time => (time' = time + 1 /\ pc = "stepping" /\ pc' = "idle")
        /\ (pc = "stepping" /\ pc' = "idle") =>
              /\ time' = time + 1
              /\ \A k \in Scheduled : k \in DOMAIN calls /\ calls[k] = 1
              /\ \A k \in TaxiKeys \cup LightKeys : k \in Scheduled
        /\ \A k \in DOMAIN calls' : calls'[k] <= 1
        /\ (pc = "idle" /\ pc' = "stepping") =>
              (time' = time /\ DOMAIN calls' = SeqToSet(schedule'))
      ]_vars

\* A step() call ended in which a passenger, delivered before its turn, was
\* not stepped.
C10_Witness ==
    /\ pc = "idle"
    /\ time >= 1
    /\ \E p \in DOMAIN calls : calls[p] = 0 /\ p \notin Scheduled

\* C11: whatever Start, Pause, Step and Reset requests arrive while the
\* background loop runs, at most one thread is inside model.step() at a time.
C11_OneStepInFlight == Cardinality(InStep) <= 1

\* C12: update_dashboard never reads the model while a model.step() started by
\* the background loop or by the Step button is partially executed.
C12_ReaderSeesCompletedTicks == dash.reading => InStep = {}

\* C13: after a Pause request that no Start or Step request follows, a
\* background thread starts no tick, except the one it had already decided on
\* when it passed its loop test before the Pause.
C13_PauseStopsTheLoop ==
    [][ \A t \in LoopThreads :
          (/\ dash.paused /\ dash'.paused
           /\ dash.threads[t].pc = "call"
           /\ t \in DOMAIN dash'.threads /\ dash'.threads[t].pc = "step") =>
              t \in dash.grace
      ]_vars

\* C14: on a road network without nodes a spawn attempt returns: the step()
\* that makes it goes on to schedule.step() with no passenger added and the
\* schedule and the grid unchanged.
C14_EmptyNetworkSpawnReturns ==
    [][ (Cells = {} /\ pc = "idle" /\ pc' # "idle") =>
            /\ pc' = "stepping"
            /\ UNCHANGED <<passenger, schedule, grid>>
      ]_vars

\* C15: no runnable model exists whose width or height is not positive or
\* whose passenger spawn rate lies outside [0, 1] (0..100 percent): the
\* construction with such arguments fails.
C15_InvalidArgumentsRejected ==
    running =>
        /\ params.width > 0
        /\ params.height > 0
        /\ params.passenger_spawn_rate \in 0..100

\* C16: running is true from construction as long as the tick count is below
\* 1000, is false from the step() that brings the tick count to 1000, and no
\* step() sets it back to true.
C16_RunningUntilTick1000 ==
    [][ /\ running = (time < 1000)
        /\ running' = (time' < 1000)
        /\ ~running => ~running'
      ]_vars

\* step() calls were made after the one that stopped the run at tick 1000.
C16_Witness == pc = "idle" /\ time = 1001 /\ ~running

\* C17: for all cells A and B of the road network, whichever shortest paths
\* are returned for (A, B) and for (B, A), they have the same length; a
\* returned path leads from A to B along edges, does not contain A, and is
\* empty when A = B.
C17_PathLengthSymmetric ==
    \A a, b \in Cells :
        /\ FindPath(a, b) # {}
        /\ \A p \in FindPath(a, b) :
              /\ \A q \in FindPath(b, a) : Len(p) = Len(q)
              /\ a \notin SeqToSet(p)
              /\ a = b <=> p = << >>
              /\ p # << >> => (p[1] \in Adj(a) /\ p[Len(p)] = b)
              /\ \A i \in 1..(Len(p) - 1) : p[i + 1] \in Adj(p[i])

\* A taxi on its way to a passenger, on a path found for cells two or more
\* edges apart, with part of the path still ahead.
C17_Witness ==
    \E k \in TaxiKeys :
        /\ taxi[k].status = "picking_up"
        /\ taxi[k].total_distance >= 1
        /\ Len(taxi[k].path) >= 1

CrossingCells == {c \in Cells : Cardinality({d \in Cells :
                      Abs(d[1] - c[1]) + Abs(d[2] - c[2]) = 1}) >= 3}

\* The cells a light may be placed on: the intersections or, when there is
\* none, the first num_traffic_lights nodes in node order
\* ((x, y) before (x', y') when x < x', or x = x' and y < y').
LightCells ==
    IF CrossingCells # {} THEN CrossingCells
    ELSE {c \in Cells : c[1] * params.height + c[2] < params.num_traffic_lights}

\* C19: there are exactly min(num_traffic_lights, number of intersections)
\* traffic lights, tl_0 .. tl_(n-1), on pairwise distinct cells that are
\* intersections, the i-th controlling the horizontal axis for even i and the
\* vertical axis for odd i; no cell of the grid holds more than one light.
C19_LightsOnDistinctIntersections ==
    LET n == IF params.num_traffic_lights < Cardinality(LightCells)
             THEN params.num_traffic_lights ELSE Cardinality(LightCells)
    IN /\ LightKeys = {<<"tl", i>> : i \in 0..(n - 1)}
       /\ \A l \in LightKeys :
             /\ light[l].position \in LightCells
             /\ light[l].direction = IF l[2] % 2 = 0 THEN "horizontal" ELSE "vertical"
             /\ l \in grid[light[l].position]
       /\ \A l, m \in LightKeys : l # m => light[l].position # light[m].position
       /\ \A c \in DOMAIN grid : Cardinality({k \in grid[c] : k[1] = "tl"}) <= 1

\* A 3x2 city asked for three lights has run a tick with two, one on each of
\* its two intersections.
C19_Witness ==
    /\ params.width = 3 /\ params.height = 2
    /\ params.num_traffic_lights = 3
    /\ Cardinality(LightKeys) = 2
    /\ time >= 1

\* C20: no step adds or removes a taxi or a traffic light, in the model or in
\* its schedule, or changes a light's position or axis; a passenger leaves
\* the schedule only as arrived, in the cell of its destination, or as
\* waiting, its wait_time past its limit.
C20_FixedFleetAndLights ==
    [][ /\ DOMAIN taxi' = DOMAIN taxi
        /\ DOMAIN light' = DOMAIN light
        /\ \A k \in TaxiKeys \cup LightKeys :
              k \in Scheduled /\ k \in SeqToSet(schedule')
        /\ \A l \in LightKeys :
              /\ light'[l].position = light[l].position
              /\ light'[l].direction = light[l].direction
        /\ \A p \in PassengerKeys :
              (p \in Scheduled /\ p \notin SeqToSet(schedule')) =>
                  \/ /\ passenger'[p].status = "arrived"
                     /\ passenger'[p].position = passenger[p].destination
                  \/ /\ passenger'[p].status = "waiting"
                     /\ passenger'[p].wait_time > passenger[p].max_wait_time
      ]_vars

\* A passenger has left at its destination, and the taxi that brought it and
\* the traffic light are still scheduled.
C20_Witness ==
    /\ \E p \in PassengerKeys :
          /\ p \notin Scheduled
          /\ passenger[p].position = passenger[p].destination
    /\ \E k \in TaxiKeys : k \in Scheduled /\ taxi[k].total_passengers = 1
    /\ \E l \in LightKeys : l \in Scheduled


\* C21: in every step a taxi's position stays as it is or changes to a
\* lattice-adjacent cell: |dx| + |dy| = 1 without wrap-around, never a
\* diagonal and never two cells, also in the steps that follow a move
\* blocked by a light.
C21_MovesToAdjacentCell ==
    [][ \A k \in TaxiKeys :
          \/ taxi'[k].position = taxi[k].position
          \/ Abs(taxi'[k].position[1] - taxi[k].position[1])
               + Abs(taxi'[k].position[2] - taxi[k].position[2]) = 1
      ]_vars


\* The fare the specification names for a priority: 10 times 2, 1.5 or 1.
ClaimedFare(priority) ==
    IF priority = "emergency" THEN 20 ELSE IF priority = "vip" THEN 15 ELSE 10

RECURSIVE ClaimedFares(_)
ClaimedFares(keys) ==
    IF keys = {} THEN 0
    ELSE LET p == CHOOSE p \in keys : TRUE
         IN ClaimedFare(passenger[p].priority) + ClaimedFares(keys \ {p})

RECURSIVE TotalRevenue(_)
TotalRevenue(keys) ==
    IF keys = {} THEN 0
    ELSE LET k == CHOOSE k \in keys : TRUE
         IN taxi[k].revenue + TotalRevenue(keys \ {k})

\* The onboard passengers of taxi k whose destination is the cell pos.
DueAt(k, pos) ==
    {taxi[k].passengers[i] : i \in {j \in 1..Len(taxi[k].passengers) :
                                       taxi[k].destinations[j] = pos}}

\* C22: when a transporting taxi enters the destination of an onboard
\* passenger, that step marks the passenger arrived, takes it out of the
\* taxi, the schedule and the grid, counts one more trip and adds the fare of
\* its priority to the revenue; a taxi left without passengers is idle with
\* no destinations and no path; the revenue of the taxis is the sum of the
\* fares of the delivered passengers.
C22_DropOffAtDestination ==
    [][ /\ \A k \in TaxiKeys :
             LET due == DueAt(k, taxi'[k].position)
             IN (/\ taxi[k].status = "transporting"
                 /\ taxi'[k].position # taxi[k].position
                 /\ due # {}) =>
                   /\ \A p \in due :
                        /\ passenger'[p].status = "arrived"
                        /\ p \notin SeqToSet(taxi'[k].passengers)
                        /\ p \notin SeqToSet(schedule')
                        /\ \A c \in DOMAIN grid' : p \notin grid'[c]
                   /\ taxi'[k].total_passengers = taxi[k].total_passengers + Cardinality(due)
                   /\ taxi'[k].revenue = taxi[k].revenue + ClaimedFares(due)
                   /\ taxi'[k].passengers = << >> =>
                        /\ taxi'[k].status = "idle"
                        /\ taxi'[k].destinations = << >>
                        /\ taxi'[k].path = << >>
        /\ (TotalRevenue(TaxiKeys)
              = ClaimedFares({p \in PassengerKeys : passenger[p].status = "arrived"}))'
      ]_vars

\* A vip passenger was delivered: 15 was added to the taxi's revenue.
C22_Witness ==
    \E k \in TaxiKeys : \E p \in PassengerKeys :
        /\ passenger[p].status = "arrived"
        /\ passenger[p].priority = "vip"
        /\ taxi[k].total_passengers = 1
        /\ taxi[k].revenue = 15
        /\ taxi[k].status = "idle"


\* The taxi counts a light samples: on its own axis and on the opposite one.
OwnCount(l) == CountTraffic(light[l])[light[l].direction]
OppositeCount(l) == CountTraffic(light[l])[OppositeDirection(light[l])]

\* C23: a green light turns red in a step exactly when, with time_in_state
\* incremented, time_in_state >= 5 and (own count = 0 or time_in_state >= 15)
\* and opposite count > 0; the switch resets time_in_state to 0, otherwise
\* the light stays green with time_in_state one higher.
C23_GreenToRed ==
    [][ \A l \in LightKeys :
          (light[l].state = "green" /\ light'[l] # light[l]) =>
              LET t == light[l].time_in_state + 1
              IN IF /\ t >= 5
                    /\ (OwnCount(l) = 0 \/ t >= 15)
                    /\ OppositeCount(l) > 0
                 THEN light'[l].state = "red" /\ light'[l].time_in_state = 0
                 ELSE light'[l].state = "green" /\ light'[l].time_in_state = t
      ]_vars

\* The light has just turned red in its 17th step with a taxi on its own
\* axis: its first green phase lasted past max_green_time.
C23_Witness ==
    \E l \in LightKeys :
        /\ pc = "stepping"
        /\ time = 16
        /\ TaxiKeys \subseteq todo
        /\ light[l].state = "red"
        /\ light[l].time_in_state = 0
        /\ OwnCount(l) > 0

\* C24: a red light turns green in a step exactly when, with time_in_state
\* incremented, time_in_state >= 3 and (own count > 1.5 x opposite count or
\* opposite count = 0); the switch resets time_in_state to 0, otherwise the
\* light stays red with time_in_state one higher.
C24_RedToGreen ==
    [][ \A l \in LightKeys :
          (light[l].state = "red" /\ light'[l] # light[l]) =>
              LET t == light[l].time_in_state + 1
              IN IF /\ t >= 3
                    /\ (2 * OwnCount(l) > 3 * OppositeCount(l) \/ OppositeCount(l) = 0)
                 THEN light'[l].state = "green" /\ light'[l].time_in_state = 0
                 ELSE light'[l].state = "red" /\ light'[l].time_in_state = t
      ]_vars

\* The light has just turned green with two taxis on its own axis and one on
\* the opposite axis.
C24_Witness ==
    \E l \in LightKeys :
        /\ pc = "stepping"
        /\ TaxiKeys \subseteq todo
        /\ light[l].state = "green"
        /\ light[l].time_in_state = 0
        /\ OwnCount(l) = 2
        /\ OppositeCount(l) = 1


\* C25: every traffic light is open for exactly one of the two axes: for its
\* own axis exactly when its state is green, for the perpendicular axis
\* exactly when its state is red.
C25_OpenForExactlyOneAxis ==
    \A l \in LightKeys :
        /\ IsGreenForDirection(light[l], "horizontal") # IsGreenForDirection(light[l], "vertical")
        /\ IsGreenForDirection(light[l], light[l].direction) = (light[l].state = "green")
        /\ IsGreenForDirection(light[l], OppositeDirection(light[l])) = (light[l].state = "red")

\* A horizontal light is red while a vertical light is green: both are open
\* for the vertical axis only.
C25_Witness ==
    \E a, b \in LightKeys :
        /\ light[a].direction = "horizontal" /\ light[a].state = "red"
        /\ light[b].direction = "vertical" /\ light[b].state = "green"
        /\ time > 0


\* C26: when a taxi attempts a move into the cell of a traffic light and the
\* offset has |dx| = |dy|, the move is made exactly when the light is open on
\* either axis.
C26_TieOffsetAllowedIfEitherAxisOpen ==
    [][ \A k \in TaxiKeys : \A l \in LightKeys :
          (/\ k \in todo /\ k \notin todo'
           /\ Len(taxi[k].passengers) > 0
           /\ taxi[k].path # << >>
           /\ light[l].position = Head(taxi[k].path)
           /\ Abs(Head(taxi[k].path)[1] - taxi[k].position[1])
                = Abs(Head(taxi[k].path)[2] - taxi[k].position[2])) =>
              ((taxi'[k].position = Head(taxi[k].path))
                 <=> (\/ IsGreenForDirection(light[l], "horizontal")
                      \/ IsGreenForDirection(light[l], "vertical")))
      ]_vars


\* The lattice-adjacent cells a taxi standing on pos is not kept out of by a
\* traffic light.
UnblockedNeighbors(pos) == {n \in Adj(pos) : CanMoveTo(pos, n)}

\* C27: a taxi without onboard passengers and without a waiting candidate
\* moves in its step to an adjacent cell of the network that no traffic light
\* blocks, and stays where it is only when every adjacent cell is blocked.
C27_ExploresToUnblockedNeighbor ==
    [][ \A k \in TaxiKeys :
          (/\ k \in todo /\ k \notin todo'
           /\ Len(taxi[k].passengers) = 0
           /\ AvailablePassengers(taxi[k]) = << >>) =>
              IF UnblockedNeighbors(taxi[k].position) # {}
              THEN taxi'[k].position \in UnblockedNeighbors(taxi[k].position)
              ELSE taxi'[k].position = taxi[k].position
      ]_vars


\* The ticks the specification names as rush hour.
ClaimedRushHour(t) == (50 <= t /\ t <= 150) \/ (300 <= t /\ t <= 400)

\* C28: with rush hour enabled, the step() that starts at tick t sets
\* rush_hour_active to true exactly when 50 <= t <= 150 or 300 <= t <= 400,
\* keeps it until the step ends, and uses the base spawn rate doubled exactly
\* then; with rush hour disabled rush_hour_active is never true and the
\* base rate is used.
C28_RushHourRanges ==
    [][ /\ (pc = "idle" /\ pc' # "idle") =>
              IF params.enable_rush_hour
              THEN /\ rush_hour_active' = ClaimedRushHour(time)
                   /\ EffectiveSpawnRate = IF ClaimedRushHour(time)
                                           THEN 2 * params.passenger_spawn_rate
                                           ELSE params.passenger_spawn_rate
              ELSE /\ ~rush_hour_active'
                   /\ EffectiveSpawnRate = params.passenger_spawn_rate
        /\ pc # "idle" => rush_hour_active' = rush_hour_active
        /\ ~params.enable_rush_hour => ~rush_hour_active
      ]_vars

\* The step() that starts at tick 400, the last tick of the second range,
\* spawned a passenger and runs with rush hour on.
C28_Witness ==
    /\ params.enable_rush_hour
    /\ pc = "stepping"
    /\ time = 400
    /\ rush_hour_active
    /\ passenger # << >>


\* C29: a step() adds at most one passenger, at its start; a passenger that is
\* added has a destination other than its origin, both cells of the road
\* network, and starts waiting with wait_time 0, placed on its origin cell
\* and scheduled.
C29_SpawnsOneValidPassenger ==
    [][ /\ Cardinality(DOMAIN passenger' \ DOMAIN passenger) <= 1
        /\ DOMAIN passenger' # DOMAIN passenger => (pc = "idle" /\ pc' = "stepping")
        /\ \A p \in DOMAIN passenger' \ DOMAIN passenger :
             /\ passenger'[p].position \in Cells
             /\ passenger'[p].destination \in Cells
             /\ passenger'[p].destination # passenger'[p].position
             /\ passenger'[p].status = "waiting"
             /\ passenger'[p].wait_time = 0
             /\ p \in grid'[passenger'[p].position]
             /\ p \in SeqToSet(schedule')
      ]_vars

\* A second passenger has just been spawned, one or more ticks after the
\* first.
C29_Witness ==
    /\ pc = "stepping"
    /\ Cardinality(DOMAIN passenger) = 2
    /\ \E p, q \in DOMAIN passenger :
         /\ passenger[p].spawn_time < passenger[q].spawn_time
         /\ passenger[q].spawn_time = time
         /\ passenger[q].wait_time = 0
         /\ passenger[q].status = "waiting"


\* Whether p leads from cell a to cell b along lattice edges in as few moves
\* as possible: the cells after a, b last.
IsShortestPath(a, b, p) ==
    /\ Len(p) = Abs(a[1] - b[1]) + Abs(a[2] - b[2])
    /\ \A i \in 1..Len(p) :
         LET from == IF i = 1 THEN a ELSE p[i - 1]
         IN /\ p[i] \in Cells
            /\ Abs(p[i][1] - from[1]) + Abs(p[i][2] - from[2]) = 1
    /\ IF p = << >> THEN a = b ELSE p[Len(p)] = b

\* Whether route visits the destinations of remaining from current on, each
\* next stop a nearest one of those left, along shortest paths.
RECURSIVE IsGreedyRoute(_, _, _)
IsGreedyRoute(current, remaining, route) ==
    IF remaining = << >> THEN route = << >>
    ELSE \E i \in 1..Len(remaining) :
           LET d == Abs(current[1] - remaining[i][1]) + Abs(current[2] - remaining[i][2])
           IN /\ \A j \in 1..Len(remaining) :
                   d <= Abs(current[1] - remaining[j][1]) + Abs(current[2] - remaining[j][2])
              /\ d <= Len(route)
              /\ IsShortestPath(current, remaining[i], SubSeq(route, 1, d))
              /\ IsGreedyRoute(remaining[i], RemoveAt(remaining, i),
                               SubSeq(route, d + 1, Len(route)))

\* C30: for any taxi position and any list of destinations, the route
\* _plan_route leaves in path is a concatenation of shortest paths that
\* visits every destination, each next stop being a destination not yet
\* visited with the smallest Manhattan distance from the previous stop (the
\* taxi's position first); the route ends at the last stop chosen.
C30_PlanRouteIsGreedy ==
    \A k \in TaxiKeys :
        (pc = "planned" /\ taxi[k].destinations # << >>) =>
            IsGreedyRoute(taxi[k].position, taxi[k].destinations, taxi[k].path)

\* A route over three destinations was planned whose first stop is not the
\* first destination of the list.
C30_Witness ==
    \E k \in TaxiKeys :
        /\ pc = "planned"
        /\ Len(taxi[k].destinations) = 3
        /\ ManhattanDistance(taxi[k].position, taxi[k].destinations[3])
             < ManhattanDistance(taxi[k].position, taxi[k].destinations[1])
        /\ ManhattanDistance(taxi[k].position, taxi[k].destinations[3])
             < ManhattanDistance(taxi[k].position, taxi[k].destinations[2])
        /\ taxi[k].destinations[1] # taxi[k].destinations[2]
        /\ Len(taxi[k].path) > 3


\* The step of taxi k in which it heads for a passenger or carries one and
\* stays on its cell: its next cell was blocked or it found no route.
StaysPut(k) ==
    /\ k \in todo /\ k \notin todo'
    /\ Len(taxi[k].passengers) > 0 \/ AvailablePassengers(taxi[k]) # << >>
    /\ taxi'[k].position = taxi[k].position

\* What the specification says a blocked or route-less step leaves alone,
\* the taxi's status aside.
FrameOfStaying(k) ==
    /\ taxi'[k].passengers = taxi[k].passengers
    /\ taxi'[k].destinations = taxi[k].destinations
    /\ taxi'[k].total_distance = taxi[k].total_distance
    /\ taxi'[k].total_passengers = taxi[k].total_passengers
    /\ taxi'[k].revenue = taxi[k].revenue
    /\ passenger' = passenger
    /\ grid' = grid
    /\ schedule' = schedule

C32_OnboardSharesCell ==
    pc = "idle" =>
        \A k \in TaxiKeys : \A p \in SeqToSet(taxi[k].passengers) :
            /\ passenger[p].position = taxi[k].position
            /\ p \in grid[taxi[k].position]

\* A passenger has ridden along: it was picked up at least a full tick ago,
\* the taxi has not been blocked since its route was last planned, and it is
\* still onboard.
C32_Witness ==
    /\ pc = "idle"
    /\ \E k \in TaxiKeys : \E p \in SeqToSet(taxi[k].passengers) :
         /\ time >= passenger[p].spawn_time + passenger[p].wait_time + 2
         /\ Len(taxi[k].path) = ManhattanDistance(taxi[k].position, taxi[k].destinations[1])
         /\ passenger[p].position = taxi[k].position


\* C33: the step of a passenger whose status is in_taxi or arrived changes
\* nothing: its wait_time stays what it was at pickup, and it is not taken
\* off the grid or the schedule, whatever its wait_time and however many
\* steps it makes onboard.
C33_OnlyWaitingPassengersAct ==
    [][ /\ \A p \in PassengerKeys :
             passenger[p].status \in {"in_taxi", "arrived"} =>
                 /\ PassengerAfterStep(passenger[p]) = passenger[p]
                 /\ ~PassengerExpires(passenger[p])
        /\ \A p \in PassengerKeys :
             (/\ p \in todo /\ p \notin todo' /\ p \in Scheduled
              /\ passenger[p].status \in {"in_taxi", "arrived"}) =>
                 /\ passenger' = passenger
                 /\ grid' = grid
                 /\ schedule' = schedule
                 /\ taxi' = taxi
      ]_vars

\* A passenger has made its step at least twice while onboard: the tick count
\* has run ahead of its wait_time.
C33_Witness ==
    \E p \in PassengerKeys :
        /\ passenger[p].status = "in_taxi"
        /\ p \in Scheduled
        /\ pc = "stepping" /\ p \notin todo
        /\ time >= passenger[p].spawn_time + passenger[p].wait_time + 2


\* No taxi carries more than one passenger.
AtMostOneOnboard == \A k \in TaxiKeys : Len(taxi[k].passengers) <= 1

\* C34: a taxi that has a passenger onboard and spare capacity still attaches
\* waiting passengers: when it enters the cell of a waiting passenger, that
\* passenger comes onboard, so that a premium taxi comes to carry 2 and a
\* luxury taxi 3.
C34_AttachesWhileCarrying ==
    [][ \A k \in TaxiKeys : \A q \in WaitingPassengers :
          (/\ k \in todo /\ k \notin todo'
           /\ Len(taxi[k].passengers) >= 1
           /\ Len(taxi[k].passengers) < taxi[k].capacity
           /\ taxi'[k].position # taxi[k].position
           /\ taxi'[k].position = passenger[q].position) =>
              /\ q \in SeqToSet(taxi'[k].passengers)
              /\ passenger'[q].status = "in_taxi"
      ]_vars


\* C35: between two ticks a taxi is transporting exactly when it has a
\* passenger onboard; a taxi without one is idle or picking_up.
C35_TransportingIffOnboard ==
    pc = "idle" =>
        \A k \in TaxiKeys :
            /\ (taxi[k].status = "transporting") <=> (Len(taxi[k].passengers) >= 1)
            /\ Len(taxi[k].passengers) = 0 => taxi[k].status \in {"idle", "picking_up"}

\* Between two ticks, a taxi that has delivered its passenger is idle again
\* and empty.
C35_Witness ==
    /\ pc = "idle"
    /\ \E k \in TaxiKeys :
         /\ taxi[k].total_passengers >= 1
         /\ taxi[k].passengers = << >>
         /\ taxi[k].status = "idle"


\* How many entries of the taxis' passengers lists name passenger p.
RECURSIVE Entries(_, _)
Entries(p, keys) ==
    IF keys = {} THEN 0
    ELSE LET k == CHOOSE k \in keys : TRUE
         IN Cardinality({i \in 1..Len(taxi[k].passengers) : taxi[k].passengers[i] = p})
              + Entries(p, keys \ {k})

\* C36: a passenger is onboard at most one taxi, once; a scheduled passenger
\* has status in_taxi exactly when one taxi's passengers list names it; two
\* taxis that head for the same waiting passenger never both attach it, in
\* whatever order they are activated.
C36_OnboardOneTaxi ==
    \A p \in PassengerKeys :
        /\ Entries(p, TaxiKeys) <= 1
        /\ p \in Scheduled => ((passenger[p].status = "in_taxi") <=> (Entries(p, TaxiKeys) = 1))

\* Both taxis have made their step of this tick: one has attached the
\* passenger the other was heading for.
C36_Witness ==
    \E a, b \in TaxiKeys : \E p \in PassengerKeys :
        /\ a # b
        /\ pc = "stepping" /\ a \notin todo /\ b \notin todo
        /\ taxi[a].passengers = <<p>>
        /\ taxi[b].status = "picking_up"
        /\ taxi[b].passengers = << >>
        /\ passenger[p].status = "in_taxi"


\* C37: after the step of a taxi that has no passenger onboard while no
\* passenger is waiting, the taxi is idle: it does not stay picking_up once
\* the passenger it was heading for is gone.
C37_IdleWithoutCandidate ==
    [][ \A k \in TaxiKeys :
          (/\ k \in todo /\ k \notin todo'
           /\ Len(taxi[k].passengers) = 0
           /\ AvailablePassengers(taxi[k]) = << >>) =>
              taxi'[k].status = "idle"
      ]_vars


\* CityModel(1, 1, 0, 0, 0.1): positive width and height, one road node.
InitSingleCell == Construct(1, 1, 0, 0, 10, TRUE) /\ Bounded(MaxTime, MaxPassengers) /\ Loaded

\* The 2x2 city runs together with the runs of the one-cell city.
InitTermination == InitCity \/ InitSingleCell

\* A thread inside step() keeps running: each statement that can be executed
\* is executed at some time.
SpecTermination == InitTermination /\ [][NextSpawn]_vars /\ WF_vars(NextSpawn)

\* C38: in every model of positive width and height, each call of step()
\* that has begun returns: the loop of _spawn_passenger that redraws the
\* destination until it differs from the origin ends.
C38_StepTerminates == (pc # "idle") ~> (pc = "idle")


\* CityModel(2, 2, 2, 3, 0.1) after seven step() calls: the lights were
\* sampled in the order (1,0), (0,0), (0,1) and the taxis wandered for five
\* ticks, taxi 0 to (1,1) and taxi 1 to (0,1); tl_0 saw taxi 0 above it and no
\* taxi beside it in its fifth step and turned red. Tick 5 spawned passenger_1
\* on (0,0) for (1,0): taxi 1 entered (0,0) and attached it, taxi 0 moved to
\* (1,0) on its way there, and tl_1 and tl_2 turned red. Tick 6 spawned
\* passenger_2 on (1,1) for (0,1): taxi 0 entered (1,1) and attached it, and
\* taxi 1 was stopped by tl_0.
InitGridlock ==
    /\ params = [width |-> 2, height |-> 2, num_taxis |-> 2, num_traffic_lights |-> 3,
                 passenger_spawn_rate |-> 10, enable_rush_hour |-> TRUE,
                 enable_weather |-> FALSE, rush_hour_multiplier |-> 2]
    /\ time = NewLight(<<0, 0>>, "vertical").min_green_time + 2
    /\ Bounded(time + MaxGridlockTime, 2)
    /\ Loaded
    /\ weather = "clear"
    /\ rush_hour_active = FALSE
    /\ running = TRUE
    /\ pc = "idle"
    /\ todo = {}
    /\ metrics = NoMetrics
    /\ passenger = [k \in {PassengerKey(1), PassengerKey(2)} |->
                       IF k = PassengerKey(1)
                       THEN [NewPassenger(<<0, 0>>, <<1, 0>>, "regular", time - 2)
                                EXCEPT !.status = "in_taxi"]
                       ELSE [NewPassenger(<<1, 1>>, <<0, 1>>, "regular", time - 1)
                                EXCEPT !.status = "in_taxi"]]
    /\ taxi = [CreateTaxis(<< <<1, 1>>, <<0, 0>> >>) EXCEPT
                    ![TaxiKey(0)].status = "transporting",
                    ![TaxiKey(0)].passengers = <<PassengerKey(2)>>,
                    ![TaxiKey(0)].destinations = << <<0, 1>> >>,
                    ![TaxiKey(0)].path = << <<0, 1>> >>,
                    ![TaxiKey(0)].total_distance = 2,
                    ![TaxiKey(1)].status = "transporting",
                    ![TaxiKey(1)].passengers = <<PassengerKey(1)>>,
                    ![TaxiKey(1)].destinations = << <<1, 0>> >>,
                    ![TaxiKey(1)].total_distance = 1]
    /\ light = [CreateTrafficLights(<< <<1, 0>>, <<0, 0>>, <<0, 1>> >>) EXCEPT
                    ![LightKey(0)].state = "red", ![LightKey(0)].time_in_state = 2,
                    ![LightKey(1)].state = "red", ![LightKey(1)].time_in_state = 1,
                    ![LightKey(2)].state = "red", ![LightKey(2)].time_in_state = 1]
    /\ schedule = InitialSchedule \o <<PassengerKey(1), PassengerKey(2)>>
    /\ calls = [k \in SeqToSet(schedule) |-> 1]
    /\ grid = [c \in Cells |-> InitialGrid(taxi, light)[c] \cup
                                  {k \in DOMAIN passenger : passenger[k].position = c}]

\* The ticks in which random.random() is not below the spawn rate.
NextGridlock ==
    \/ BeginStepNoSpawn
    \/ StepTaxi
    \/ StepPassenger
    \/ StepLight
    \/ EndStep

\* step() is called again and again, and each schedule.step() goes through
\* all its agents.
SpecGridlock == InitGridlock /\ [][NextGridlock]_vars /\ WF_vars(NextGridlock)

\* The passenger is aboard a taxi.
Onboard(p) == p \in PassengerKeys /\ passenger[p].status = "in_taxi"

\* The passenger has been dropped at its destination.
Delivered(p) == p \in PassengerKeys /\ passenger[p].status = "arrived"

Gridlocked ==
    /\ DOMAIN passenger = {PassengerKey(1), PassengerKey(2)}
    /\ \A p \in DOMAIN passenger : passenger[p].status = "in_taxi"
    /\ taxi[TaxiKey(1)].position = <<0, 0>>
    /\ taxi[TaxiKey(1)].passengers = <<PassengerKey(1)>>
    /\ taxi[TaxiKey(1)].destinations = << <<1, 0>> >>
    /\ taxi[TaxiKey(0)].position = <<1, 1>>
    /\ taxi[TaxiKey(0)].passengers = <<PassengerKey(2)>>
    /\ taxi[TaxiKey(0)].destinations = << <<0, 1>> >>
    /\ light[LightKey(0)].state = "red"
    /\ light[LightKey(2)].state = "red"

\* Once the two taxis block each other's light, every later step leaves them
\* so: each light counts one taxi on either axis and stays red.
GridlockPersists == [][Gridlocked => Gridlocked']_vars

\* C40: after a Reset that no Start or Step request has followed, no
\* background loop enters model.step(): the loops started before the Reset
\* leave the new model at tick 0.
C40_FreshModelWaits ==
    [][ (dash.fresh /\ dash'.fresh) =>
            \A t \in LoopThreads :
                ~(/\ t \in DOMAIN dash'.threads
                  /\ dash.threads[t].pc = "call"
                  /\ dash'.threads[t].pc = "step")
      ]_vars

====
